---- MODULE Spec2Model ----
(***************************************************************************)
(* Model of the ApexFlow execution engine: AgentLoop4 (core/loop.py) and   *)
(* ExecutionContextManager (memory/context.py).                            *)
(*                                                                         *)
(* The engine is a set of asyncio coroutines on one event loop, so code    *)
(* between two suspension points runs atomically.  The run controller is   *)
(* suspended only while it awaits the planner ("planning"), the gather of  *)
(* a tick ("gather"), asyncio.sleep(0.5) ("sleep"), a human answer inside  *)
(* mark_done ("recwait"), or the hand-over from the finished _execute_dag  *)
(* task back to run() ("dagdone", or "dagraised" when the task ended with   *)
(* an exception).  "head" and "record" are positions inside one atomic     *)
(* stretch; external calls (stop, provide_user_input) cannot interleave    *)
(* there.  AgentLoop4.stop only requests the cancellation of the tracked   *)
(* task: run() stays where it is suspended, with the CancelledError on its *)
(* way ("cancel_profiling", "cancel_planning", "cancel_dag",               *)
(* "cancel_gather", "cancel_recwait"), until the event loop delivers it.   *)
(***************************************************************************)
EXTENDS Integers, Sequences, FiniteSets, TLC

\* ---------------------------------------------------------------- bounds
\* Last value of the clock read by a CircuitBreaker.
MaxTime == 4
\* Largest failure_count a CircuitBreaker is followed to.
MaxFailureCount == 3
\* Largest max_retries handed to retry_with_backoff.
MaxRetryParam == 3
\* Largest number of planner invocations explored in one run.
MaxPlannerCalls == 2

\* ------------------------------------------------------ program constants
\* Money is counted in cents.
MaxCostPerRun == 50
WarnAtCost == 25
MAX_STEP_RETRIES == 2
\* Confidence is counted in hundredths.
AUTO_CLARIFY_THRESHOLD == 70

\* ------------------------------------------------------------ input sets
\* Task ids the planner may emit.
TaskIds == {"A", "B", "C"}
AutoClarifyId == "T000_AutoClarify"
AllIds == {"ROOT", "Query", AutoClarifyId} \cup TaskIds
\* Cost (cents) a worker output may carry.
Costs == {0, 30}

Terminal == {"completed", "failed", "skipped", "stopped", "cost_exceeded"}

\* A plan node without reads and writes keys, and one that carries them.
N(i, a) == [id |-> i, agent |-> a, hasReads |-> FALSE, reads |-> <<>>,
            hasWrites |-> FALSE, writes |-> <<>>]
ND(i, a, r, w) == [id |-> i, agent |-> a, hasReads |-> TRUE, reads |-> r,
                   hasWrites |-> TRUE, writes |-> w]

\* iteration_context of the first build_agent_input of an execution
NoContext == [key |-> "none", value |-> "none"]

\* Planner outputs explored: plan_graph nodes and edges,
\* interpretation_confidence, the number of ambiguity_notes, and
\* next_step_id.  Every edge joins nodes of the same plan, ids are unique
\* within a plan, and no node carries a status of its own.
PChain == [nodes |-> <<N("A", "CoderAgent"), N("B", "CoderAgent"), N("C", "CoderAgent")>>,
           edges |-> <<(<<"A", "B">>), (<<"B", "C">>)>>,
           confidence |-> 100, ambiguityNotes |-> 0, nextStep |-> "A"]
PClarOrphan == [nodes |-> <<N("C", "ClarificationAgent"), N("A", "CoderAgent"), N("B", "CoderAgent")>>,
                edges |-> <<(<<"A", "B">>)>>,
                confidence |-> 100, ambiguityNotes |-> 0, nextStep |-> "C"]
PCycle == [nodes |-> <<N("A", "CoderAgent"), N("B", "CoderAgent")>>,
           edges |-> <<(<<"A", "B">>), (<<"B", "A">>)>>,
           confidence |-> 100, ambiguityNotes |-> 0, nextStep |-> "A"]
PClarFirst == [nodes |-> <<N("C", "ClarificationAgent"), N("A", "CoderAgent")>>,
               edges |-> <<(<<"C", "A">>)>>,
               confidence |-> 100, ambiguityNotes |-> 0, nextStep |-> "C"]
PLowConf == [nodes |-> <<N("A", "CoderAgent")>>,
             edges |-> <<>>,
             confidence |-> 50, ambiguityNotes |-> 1, nextStep |-> "A"]
POrphanB == [nodes |-> <<N("B", "CoderAgent")>>,
             edges |-> <<>>,
             confidence |-> 100, ambiguityNotes |-> 0, nextStep |-> "B"]
Plans == {PChain, PClarOrphan, PCycle, PClarFirst, PLowConf, POrphanB}

VARIABLES
    nodeOrder,        \* plan_graph.nodes in insertion order
    edges,            \* plan_graph edges, pairs <<source, target>>
    status,           \* node attribute "status" ("absent": not in the graph)
    agent,            \* node attribute "agent"
    cost,             \* node attribute "cost"
    retryCount,       \* node attribute "_retry_count"
    graphStatus,      \* plan_graph.graph["status"]
    stopRequested,    \* context.stop_requested
    userInputEvent,   \* context.user_input_event is set
    userInputValue,   \* context.user_input_value
    woken,            \* tasks whose wait on user_input_event has been woken
    pc,               \* position of run() / _execute_dag
    readySteps,       \* ready_steps of the tick in progress
    stepState,        \* per task: state of its _execute_step coroutine
    outCost,          \* per task: cost carried by the output of its execution
    recIdx,           \* index of the result being recorded (zip loop)
    costWarningShown, \* local cost_warning_shown of _execute_dag
    planCalls,        \* number of planner invocations so far
    stepStarts,       \* per task: step_start events published
    stepFailedEvents, \* per task: step_failed events published
    costWarnings,     \* "Cost Warning" lines logged during the run
    turn,             \* per task: turn of the ReAct loop of its execution
    iterContext,      \* per task: iteration_context of current_input
    finalWarning,     \* per task: current_input carries the FINAL turn warning
    toolErrors,       \* per task: "Tool Execution Failed" errors logged in its execution
    workerCalls,      \* per task: run_agent invocations of its execution
    outKind,          \* per task: what the output in hand asks for
    mergedIds,        \* ids of new_nodes of the last merged plan
    lastPlan,         \* the plan handed to the last merge
    planResult,       \* plan_result of run(): what the last planner call gave
    reads,            \* per task: plan_graph.nodes[id]["reads"]
    writes,           \* per task: plan_graph.nodes[id]["writes"]
    rbMax,            \* retry_with_backoff: max_retries
    rbBase,           \* retry_with_backoff: base_delay (seconds)
    rbScript,         \* retry_with_backoff: what async_func does on each call
    rbAttempt,        \* retry_with_backoff: attempt
    rbLast,           \* retry_with_backoff: last_exception
    rbState,          \* retry_with_backoff: where the call stands
    rbCalls,          \* retry_with_backoff: calls of async_func made
    rbDelays,         \* retry_with_backoff: the delays slept, in order
    rbRaised,         \* retry_with_backoff: the exception raised to the caller
    globals,          \* plan_graph.graph["globals_schema"]
    inputs,           \* per task: local `inputs` of its _execute_step
    allGlobals,       \* per task: all_globals_schema of its current_input
    outData,          \* per task: the output of its latest execution
    cb,               \* a CircuitBreaker: its parameters and fields
    cbNow,            \* time.time()
    cbHist            \* the last call on the breaker, its return value, and
                      \* the time of the last record_failure

vars == <<nodeOrder, edges, status, agent, cost, retryCount, graphStatus,
          stopRequested, userInputEvent, userInputValue, woken, pc, readySteps,
          stepState, outCost, recIdx, costWarningShown, planCalls,
          stepStarts, stepFailedEvents, costWarnings, turn, iterContext, finalWarning,
          toolErrors, workerCalls, outKind, mergedIds, lastPlan, planResult,
          reads, writes, rbMax, rbBase, rbScript, rbAttempt, rbLast, rbState, rbCalls, rbDelays,
          rbRaised, globals, inputs, allGlobals, outData, cb, cbNow, cbHist>>

Range(s) == {s[i] : i \in 1..Len(s)}
Nodes == Range(nodeOrder)

Predecessors(n) == {e[1] : e \in {x \in edges : x[2] = n}}
Successors(n) == {e[2] : e \in {x \in edges : x[1] = n}}

\* ExecutionContextManager.all_done, on a status map st
AllDoneOf(st) == \A n \in Nodes : st[n] \in Terminal
all_done == AllDoneOf(status)

\* A readiness test that forgets the dependency check.
IsReadyNoDeps(n) ==
    /\ n # "ROOT"
    /\ status[n] \notin {"completed", "failed", "running", "waiting_input",
                        "stopped", "skipped", "cost_exceeded"}

\* ExecutionContextManager.get_ready_steps: the test applied to each node
IsReady(n) ==
    /\ n # "ROOT"
    /\ status[n] \notin {"completed", "failed", "running", "waiting_input",
                        "stopped", "skipped", "cost_exceeded"}
    /\ \A p \in Predecessors(n) : status[p] = "completed"
get_ready_steps == SelectSeq(nodeOrder, LAMBDA n : IsReady(n))

\* A frontier chosen by dependencies alone, whatever the status of the node.
ReadyStepsAnyStatus ==
    SelectSeq(nodeOrder,
              LAMBDA n : n # "ROOT" /\ \A p \in Predecessors(n) : status[p] = "completed")

\* ready_steps of _execute_dag: get_ready_steps, then the pending filter
ReadySteps == SelectSeq(get_ready_steps, LAMBDA n : status[n] = "pending")

\* running_or_waiting of _execute_dag
RunningOrWaiting == \E n \in Nodes : status[n] \in {"running", "waiting_input"}

\* The skip pass of _execute_dag: nodes are visited in order and a node
\* skipped earlier in the pass is seen as skipped by the nodes after it.
RECURSIVE SkipPass(_, _)
SkipPass(st, i) ==
    IF i > Len(nodeOrder) THEN st
    ELSE LET n == nodeOrder[i]
             hit == /\ st[n] = "pending"
                    /\ \E p \in Predecessors(n) :
                          st[p] \in {"failed", "skipped", "cost_exceeded"}
         IN SkipPass(IF hit THEN [st EXCEPT ![n] = "skipped"] ELSE st, i + 1)

\* is_complete of _execute_dag
IsComplete(st) ==
    \A n \in Nodes \ {"ROOT"} :
        st[n] \in {"completed", "failed", "skipped", "cost_exceeded"}

\* accumulated_cost of _execute_dag
RECURSIVE SumCost(_, _)
SumCost(S, st) ==
    IF S = {} THEN 0
    ELSE LET n == CHOOSE x \in S : TRUE
         IN (IF st[n] = "completed" THEN cost[n] ELSE 0) + SumCost(S \ {n}, st)
AccumulatedCost == SumCost(Nodes, status)

\* "Final status" block at the end of _execute_dag
FinalStatus(gs, st) ==
    IF gs = "cost_exceeded" THEN gs
    ELSE IF stopRequested THEN "stopped"
    ELSE IF \E n \in Nodes : st[n] = "failed" THEN "failed"
    ELSE IF AllDoneOf(st) THEN "completed"
    ELSE "failed"

\* nodes[n]["status"] raises KeyError for a node without status.  all(...)
\* and any(...) visit the nodes in order and stop at the first node that
\* decides: Decides(n) tells whether node n ends the evaluation.
KeyErrorBefore(st, Decides(_)) ==
    \E i \in 1..Len(nodeOrder) :
        /\ st[nodeOrder[i]] = "nostatus"
        /\ \A j \in 1..(i - 1) : ~Decides(nodeOrder[j])
\* all_done raises
AllDoneRaises(st) == KeyErrorBefore(st, LAMBDA n : st[n] \notin Terminal)
\* the pending filter on get_ready_steps raises
FilterRaises == \E n \in Range(get_ready_steps) : status[n] = "nostatus"
\* running_or_waiting raises
RunningOrWaitingRaises ==
    KeyErrorBefore(status, LAMBDA n : status[n] \in {"running", "waiting_input"})
\* is_complete raises
IsCompleteRaises(st) ==
    KeyErrorBefore([st EXCEPT !["ROOT"] = "completed"],
                   LAMBDA n : n # "ROOT" /\ st[n] \notin {"completed", "failed", "skipped",
                                                          "cost_exceeded"})
\* One pass through the head of the loop of _execute_dag raises KeyError.
HeadRaises ==
    \/ AllDoneRaises(status)
    \/ /\ ~all_done /\ ~stopRequested
       /\ \/ FilterRaises
          \/ /\ ReadySteps = <<>>
             /\ \/ RunningOrWaitingRaises
                \/ /\ ~RunningOrWaiting
                   /\ SkipPass(status, 1) = status
                   /\ IsCompleteRaises(status)

\* A re-planning test that forgets the successor check.
ShouldReplanAnyClarification ==
    /\ all_done
    /\ \E n \in Nodes : /\ agent[n] = "ClarificationAgent"
                         /\ status[n] = "completed"

\* AgentLoop4._should_replan
should_replan ==
    /\ all_done
    /\ \E n \in Nodes : /\ agent[n] = "ClarificationAgent"
                         /\ status[n] = "completed"
                         /\ Successors(n) = {}

\* ------------------------------------------------------------ plan merge
HasClarificationAgent(p) ==
    \E i \in 1..Len(p.nodes) : p.nodes[i].agent = "ClarificationAgent"

\* No plan merged yet.
NoPlan == [nodes |-> <<>>, edges |-> <<>>, confidence |-> 100, ambiguityNotes |-> 0, nextStep |-> "none"]

AutoClarifyKey == "user_clarification_T000"

\* `if key not in reads: reads.append(key)`
AppendIfAbsent(r, k) == IF k \in Range(r) THEN r ELSE Append(r, k)

\* The first node with id first_step gets the clarification key in its reads.
RECURSIVE WireFirstStep(_, _, _)
WireFirstStep(nodes, first, i) ==
    IF i > Len(nodes) THEN nodes
    ELSE IF nodes[i].id = first
         THEN [nodes EXCEPT ![i] = [@ EXCEPT !.hasReads = TRUE,
                                             !.reads = AppendIfAbsent(@, AutoClarifyKey)]]
         ELSE WireFirstStep(nodes, first, i + 1)

\* AUTO-CLARIFICATION CHECK of run(): the plan handed to the merge
AutoClarify(p) ==
    IF p.confidence < AUTO_CLARIFY_THRESHOLD /\ p.ambiguityNotes > 0 /\ ~HasClarificationAgent(p)
    THEN [p EXCEPT !.nodes = <<ND(AutoClarifyId, "ClarificationAgent", <<>>,
                                  <<AutoClarifyKey>>)>>
                               \o WireFirstStep(@, p.nextStep, 1),
                   !.edges = <<(<<AutoClarifyId, p.nextStep>>)>> \o @,
                   !.nextStep = AutoClarifyId]
    ELSE p

PlanIds(p) == {p.nodes[i].id : i \in 1..Len(p.nodes)}
PlanNode(p, n) == CHOOSE x \in Range(p.nodes) : x.id = n

\* A node loop that overwrites every listed node.
OverwrittenAll(p) == PlanIds(p)

\* _merge_plan_into_context, node loop: a node that exists with status
\* completed is left alone, any other listed node gets the defaults.
Overwritten(p) == {n \in PlanIds(p) : ~(n \in Nodes /\ status[n] = "completed")}
\* edge loop: ROOT as a source is redirected to Query
EdgeSource(e) == IF e[1] = "ROOT" THEN "Query" ELSE e[1]
\* The ends of the plan's edges in the order add_edge sees them.
EdgeEnds(p) ==
    [i \in 1..(2 * Len(p.edges)) |->
        IF i % 2 = 1 THEN EdgeSource(p.edges[(i + 1) \div 2]) ELSE p.edges[i \div 2][2]]
\* add_node / add_edge: an id that is not in the graph is appended.
RECURSIVE AddMissing(_, _)
AddMissing(order, ids) ==
    IF ids = <<>> THEN order
    ELSE AddMissing(IF Head(ids) \in Range(order) THEN order ELSE Append(order, Head(ids)),
                    Tail(ids))
\* Node order after the node loop and the edge loop: add_edge creates an
\* end of an edge that is neither in the graph nor listed by the plan.
MergedOrder(p) ==
    AddMissing(AddMissing(nodeOrder, [i \in 1..Len(p.nodes) |-> p.nodes[i].id]),
               EdgeEnds(p))
\* The nodes add_edge creates: they carry no attribute, no status either.
CreatedByEdges(p) == Range(MergedOrder(p)) \ (Nodes \cup PlanIds(p))
PlanEdges(p) == {<<EdgeSource(p.edges[i]), p.edges[i][2]>> : i \in 1..Len(p.edges)}
NodesWithIncomingEdges(p) == {p.edges[i][2] : i \in 1..Len(p.edges)}
\* orphan loop
OrphanEdges(p) == {<<"Query", n>> : n \in PlanIds(p) \ NodesWithIncomingEdges(p)}
MergedEdges(p) == edges \cup PlanEdges(p) \cup OrphanEdges(p)

\* node loop: add_node sets the attributes the plan node carries; a
\* listed node that is not overwritten, or carries no reads key, keeps the
\* reads the graph has for it.
SharesReads(p, n) == n \in Overwritten(p) /\ PlanNode(p, n).hasReads
BaseReads(p) ==
    [n \in AllIds |-> IF n \in PlanIds(p) /\ SharesReads(p, n)
                       THEN PlanNode(p, n).reads ELSE reads[n]]
PlanReads(p) ==
    [n \in AllIds |-> IF n \in PlanIds(p) THEN PlanNode(p, n).reads ELSE <<>>]
MergedWrites(p) ==
    [n \in AllIds |-> IF n \in Overwritten(p) /\ PlanNode(p, n).hasWrites
                       THEN PlanNode(p, n).writes ELSE writes[n]]

\* Safety net, innermost step: key k is wired into successor s.  pg.P is
\* the reads of the plan's node dicts, pg.G the reads of the graph nodes;
\* for an overwritten node that carries reads both are one list object.
WireKey(p, pg, s, k) ==
    IF k \in Range(pg.P[s]) THEN pg
    ELSE [P |-> [pg.P EXCEPT ![s] = Append(@, k)],
          G |-> [pg.G EXCEPT ![s] = IF SharesReads(p, s) THEN Append(pg.P[s], k)
                                    ELSE AppendIfAbsent(@, k)]]

\* Safety net: for node i of the plan, if it is a ClarificationAgent with
\* writes, for every edge j it is the source of, for every key l.
RECURSIVE Wire(_, _, _, _, _)
Wire(p, i, j, l, pg) ==
    IF i > Len(p.nodes) THEN pg
    ELSE IF p.nodes[i].agent # "ClarificationAgent" \/ p.nodes[i].writes = <<>>
              \/ j > Len(p.edges)
         THEN Wire(p, i + 1, 1, 1, pg)
    ELSE IF p.edges[j][1] # p.nodes[i].id \/ p.edges[j][2] \notin PlanIds(p)
              \/ l > Len(p.nodes[i].writes)
         THEN Wire(p, i, j + 1, 1, pg)
    ELSE Wire(p, i, j, l + 1, WireKey(p, pg, p.edges[j][2], p.nodes[i].writes[l]))

\* reads of the graph nodes after _merge_plan_into_context
MergedReads(p) == Wire(p, 1, 1, 1, [P |-> PlanReads(p), G |-> BaseReads(p)]).G

\* ------------------------------------------------------------- data flow
\* Keys of globals_schema that the plans explored read or write, and the
\* key that mark_done uses when the output names no writes_to.
Keys == {"x", "y", "z", "k", AutoClarifyKey, "user_response"}
\* A key that is not in the dictionary.
Missing == "missing"
\* The empty dictionary; also stands for a payload without
\* all_globals_schema.
NoGlobals == [k \in Keys |-> Missing]
\* No code was executed for the output (it carries none, or the executor
\* raised): execution_result stays None.
NoExec == [status |-> "none", result |-> NoGlobals]
\* What mark_done reads in an output: the result of its code execution,
\* the keys it carries directly, the dict under its "output" field (when
\* that is a dict), its final_answer and its writes_to.  Shape(b, ws, w)
\* is an output without code, "output" dict and final_answer that carries
\* the write keys ws, each with the value 5, when b holds.  No write key
\* explored is one of the keys mark_done itself adds to the output.
Shape(b, ws, w) ==
    [exec |-> NoExec,
     direct |-> [k \in Keys |-> IF b /\ k \in Range(ws) THEN "5" ELSE Missing],
     nestedIsDict |-> FALSE, nested |-> NoGlobals, final |-> Missing, writesTo |-> w]
NoOutput == Shape(FALSE, <<>>, "none")
PlainOutput == Shape(FALSE, <<>>, "user_response")

\* rich_context of mark_done for the answer v
RichContext(v) ==
    IF v = "answer" THEN "Agent Question: which?\nUser Answer: answer"
    ELSE "Agent Question: which?\nUser Answer: None"

\* ExecutionContextManager.get_inputs
get_inputs(r) == [k \in Keys |-> IF k \in Range(r) THEN globals[k] ELSE Missing]

\* payload["all_globals_schema"] of build_agent_input
AllGlobalsSchema(t) == IF agent[t] = "FormatterAgent" THEN globals ELSE NoGlobals

\* globals_schema[writes_to] = rich_context
SaveInteraction(g, d, v) == [g EXCEPT ![d.writesTo] = RichContext(v)]

\* Number of fields of a dict.
Size(dict) == Cardinality({k \in Keys : dict[k] # Missing})
\* The value of the only field of a dict with one field.
OnlyValue(dict) == dict[CHOOSE k \in Keys : dict[k] # Missing]

\* _merge_execution_results: the fields of a successful result are copied
\* into the output where the output has no field of that name.
MergedDirect(d) ==
    IF d.exec.status = "success"
    THEN [k \in Keys |-> IF d.direct[k] # Missing THEN d.direct[k] ELSE d.exec.result[k]]
    ELSE d.direct

\* An extraction that looks at final_answer before output["output"].
ExtractValueFinalFirst(ws, d, k) ==
    IF d.exec.status = "success" /\ d.exec.result[k] # Missing THEN d.exec.result[k]
    ELSE IF d.exec.status = "success" /\ Size(d.exec.result) = 1 /\ Len(ws) = 1
    THEN OnlyValue(d.exec.result)
    ELSE IF MergedDirect(d)[k] # Missing THEN MergedDirect(d)[k]
    ELSE IF d.final # Missing THEN d.final
    ELSE IF d.nestedIsDict /\ d.nested[k] # Missing THEN d.nested[k]
    ELSE "[]"

\* EXTRACTION LOGIC of mark_done for the write key k of a node with
\* writes ws: strategy 1 (code execution result), strategy 2 (the output,
\* its "output" dict, final_answer), strategy 3 (the fallback []).
ExtractValue(ws, d, k) ==
    IF d.exec.status = "success" /\ d.exec.result[k] # Missing THEN d.exec.result[k]
    ELSE IF d.exec.status = "success" /\ Size(d.exec.result) = 1 /\ Len(ws) = 1
    THEN OnlyValue(d.exec.result)
    ELSE IF MergedDirect(d)[k] # Missing THEN MergedDirect(d)[k]
    ELSE IF d.nestedIsDict /\ d.nested[k] # Missing THEN d.nested[k]
    ELSE IF d.final # Missing THEN d.final
    ELSE "[]"

\* globals_schema after the extraction for every write key of t
Extract(g, t, d) ==
    [k \in Keys |-> IF k \in Range(writes[t]) THEN ExtractValue(writes[t], d, k) ELSE g[k]]

\* Outputs a worker of task t may return, with writes_to drawn from W.
OutputsOf(t, W) ==
    {Shape(b, writes[t], w) :
        b \in (IF writes[t] = <<>> THEN {FALSE} ELSE BOOLEAN), w \in W}
FinalOutputs(t) == OutputsOf(t, {"user_response"})
ClarificationOutputs(t) ==
    OutputsOf(t, {"user_response"} \cup
                 (IF agent[t] = "ClarificationAgent" THEN Range(writes[t]) ELSE {}))

\* --------------------------------------------------------- CircuitBreaker
\* A breaker as its constructor leaves it, with the given parameters.
NewBreaker(threshold, timeout, maxCalls) ==
    [failure_threshold |-> threshold, recovery_timeout |-> timeout,
     half_open_max_calls |-> maxCalls,
     state |-> "CLOSED", failure_count |-> 0, success_count |-> 0,
     last_failure_time |-> 0, half_open_calls |-> 0]
\* No call yet.  admitted counts the can_execute calls answered True since
\* the breaker last became HALF_OPEN, the entering call included.
NoCall == [op |-> "none", result |-> "None", lastFailure |-> 0, admitted |-> 0]

\* No breaker is followed.
BreakerIdle ==
    /\ cb = NewBreaker(0, 0, 0)
    /\ cbNow = 0
    /\ cbHist = NoCall

\* ---------------------------------------------------- retry_with_backoff
NoException == [kind |-> "none", attempt |-> 0]

\* No call of retry_with_backoff is followed.
RetryIdle ==
    /\ rbMax = 0
    /\ rbBase = 0
    /\ rbScript = <<>>
    /\ rbAttempt = 0
    /\ rbLast = NoException
    /\ rbState = "idle"
    /\ rbCalls = 0
    /\ rbDelays = <<>>
    /\ rbRaised = NoException

\* --------------------------------------------------------------- initial
\* State of run() once the bootstrap context exists and the first planner
\* call is awaited: ROOT completed, Query running, edge ROOT -> Query.
Bootstrap ==
    /\ nodeOrder = <<"ROOT", "Query">>
    /\ mergedIds = {}
    /\ lastPlan = NoPlan
    /\ planResult = "none"
    /\ reads = [n \in AllIds |-> <<>>]
    /\ writes = [n \in AllIds |-> <<>>]

    /\ edges = {<<"ROOT", "Query">>}
    /\ status = [n \in AllIds |-> IF n = "ROOT" THEN "completed"
                                  ELSE IF n = "Query" THEN "running"
                                  ELSE "absent"]
    /\ agent = [n \in AllIds |-> IF n = "ROOT" THEN "System"
                                 ELSE IF n = "Query" THEN "PlannerAgent"
                                 ELSE "none"]
    /\ cost = [n \in AllIds |-> 0]
    /\ retryCount = [n \in AllIds |-> 0]
    /\ graphStatus = "running"
    /\ stopRequested = FALSE
    /\ userInputEvent = FALSE
    /\ userInputValue = "None"
    /\ woken = {}
    /\ readySteps = <<>>
    /\ stepState = [n \in AllIds |-> "idle"]
    /\ outCost = [n \in AllIds |-> 0]
    /\ recIdx = 0
    /\ costWarningShown = FALSE
    /\ planCalls = 0
    /\ stepStarts = [n \in AllIds |-> 0]
    /\ stepFailedEvents = [n \in AllIds |-> 0]
    /\ costWarnings = 0
    /\ turn = [n \in AllIds |-> 1]
    /\ iterContext = [n \in AllIds |-> NoContext]
    /\ finalWarning = [n \in AllIds |-> FALSE]
    /\ toolErrors = [n \in AllIds |-> 0]
    /\ workerCalls = [n \in AllIds |-> 0]
    /\ outKind = [n \in AllIds |-> "none"]
    /\ globals = NoGlobals
    /\ inputs = [n \in AllIds |-> NoGlobals]
    /\ allGlobals = [n \in AllIds |-> NoGlobals]
    /\ outData = [n \in AllIds |-> NoOutput]

\* run() after Phase 0, about to profile the uploaded files.
Init == Bootstrap /\ pc = "profiling" /\ RetryIdle /\ BreakerIdle

graphVars == <<nodeOrder, edges, agent, mergedIds, lastPlan, planResult, reads, writes>>
\* The graph itself, which only a merge changes.
mergeVars == <<nodeOrder, edges, agent, mergedIds, lastPlan, reads, writes>>

\* What a planner call can give besides a plan: a success False result, an
\* output without plan_graph, or an exception out of retry_with_backoff.
PlannerFailures == {"failed", "no_plan_graph", "raised"}
tickVars == <<readySteps, stepState, outCost, recIdx>>
inputVars == <<userInputEvent, userInputValue, woken>>
eventVars == <<stepStarts, stepFailedEvents, costWarnings>>
cbVars == <<cb, cbNow, cbHist>>
dataVars == <<globals, inputs, allGlobals, outData>>
retryVars == <<rbMax, rbBase, rbScript, rbAttempt, rbLast, rbState, rbCalls,
               rbDelays, rbRaised>>
reactVars == <<turn, iterContext, finalWarning, toolErrors, workerCalls, outKind>>

\* ------------------------------------------------------- run(): planning
\* The planner returns plan p with cost c: auto-clarification, Query marked
\* completed, the plan merged, _execute_dag created as a task.
PlanMerged(p, c, calls) ==
    /\ pc = "planning"
    /\ ~stopRequested
    /\ LET q == AutoClarify(p)
           over == Overwritten(q)
       IN /\ status' = [n \in AllIds |->
                          IF n = "Query" THEN "completed"
                          ELSE IF n \in over THEN "pending"
                          ELSE IF n \in CreatedByEdges(q) THEN "nostatus"
                          ELSE status[n]]
          /\ agent' = [n \in AllIds |->
                          IF n \in over THEN PlanNode(q, n).agent ELSE agent[n]]
          /\ cost' = [n \in AllIds |->
                          IF n = "Query" THEN c
                          ELSE IF n \in over THEN 0 ELSE cost[n]]
          /\ nodeOrder' = MergedOrder(q)
          /\ edges' = MergedEdges(q)
          /\ mergedIds' = PlanIds(q)
          /\ lastPlan' = q
          /\ planResult' = "ok"
          /\ reads' = MergedReads(q)
          /\ writes' = MergedWrites(q)
    /\ planCalls' = calls
    /\ pc' = "dagstart"
    /\ UNCHANGED <<dataVars, cbVars, retryVars, reactVars, retryCount, graphStatus, stopRequested, inputVars, tickVars,
                   costWarningShown, eventVars>>

\* One of the first MaxPlannerCalls planner calls of the run.
PlanOk(p, c) ==
    /\ planCalls < MaxPlannerCalls
    /\ PlanMerged(p, c, planCalls + 1)

\* A later planner call of the run; the calls are no longer counted.
PlanAgain(p, c) ==
    /\ planCalls = MaxPlannerCalls
    /\ PlanMerged(p, c, planCalls)

\* An except block that marks every node failed, completed ones too.
FailAllNodes(st) == [n \in AllIds |-> IF st[n] # "absent" THEN "failed" ELSE st[n]]

\* The outer except block of run() for an exception that is not a stop:
\* running and pending nodes and the graph become failed.
FailAll(st) == [n \in AllIds |-> IF st[n] \in {"running", "pending"} THEN "failed" ELSE st[n]]
\* The same block under stop_requested or CancelledError.
StopAll(st) == [n \in AllIds |-> IF st[n] \in {"running", "pending"} THEN "stopped" ELSE st[n]]
\* Phase 1 of run(): there are no uploaded files, or the DistillerAgent
\* returns its result (set_file_profiles stores a success in a graph
\* attribute that only the planner's input reads).  run() enters the
\* planning loop, which breaks at once when the stop flag is up.
ProfileFiles ==
    /\ pc = "profiling"
    /\ pc' = IF stopRequested THEN "returned" ELSE "planning"
    /\ UNCHANGED <<dataVars, cbVars, retryVars, reactVars, graphVars, status, cost, retryCount, graphStatus, stopRequested, inputVars,
                   tickVars, costWarningShown, planCalls, eventVars>>

\* The call of the DistillerAgent raises: the await stands outside the try
\* block of the planning loop, so the exception leaves run() with the
\* bootstrap graph as it is.
ProfileRaise ==
    /\ pc = "profiling"
    /\ pc' = "returned"
    /\ UNCHANGED <<dataVars, cbVars, retryVars, reactVars, graphVars, status, cost, retryCount, graphStatus, stopRequested, inputVars,
                   tickVars, costWarningShown, planCalls, eventVars>>


\* The planner call fails or its output has no plan_graph: mark_failed on
\* Query, RuntimeError, outer except block.  An exception of the call
\* itself reaches the same block, which marks the running Query failed.
PlanFail ==
    /\ pc = "planning"
    /\ ~stopRequested
    /\ planResult' \in PlannerFailures
    /\ status' = FailAll([status EXCEPT !["Query"] = "failed"])
    /\ graphStatus' = "failed"
    /\ pc' = "returned"
    /\ UNCHANGED <<dataVars, cbVars, retryVars, reactVars, mergeVars, cost, retryCount, stopRequested, inputVars, tickVars,
                   costWarningShown, planCalls, eventVars>>

\* The planner call ends while the stop flag is up and no task was
\* cancelled: a result, whatever it is, makes run() break on
\* stop_requested before it looks at it; an exception reaches the outer
\* except block, which marks running and pending nodes and the graph
\* stopped.
PlanStopped ==
    /\ pc = "planning"
    /\ stopRequested
    /\ \/ /\ planResult' \in {"ok", "failed", "no_plan_graph"}
          /\ UNCHANGED <<status, graphStatus>>
       \/ /\ planResult' = "raised"
          /\ status' = StopAll(status)
          /\ graphStatus' = "stopped"
    /\ pc' = "returned"
    /\ UNCHANGED <<dataVars, cbVars, retryVars, reactVars, mergeVars, cost, retryCount, stopRequested, inputVars, tickVars,
                   costWarningShown, planCalls, eventVars>>

\* ------------------------------------------------ _execute_dag: the loop
\* The _execute_dag task starts running.
DagStart ==
    /\ pc = "dagstart"
    /\ costWarningShown' = FALSE
    /\ pc' = "head"
    /\ UNCHANGED <<dataVars, cbVars, retryVars, reactVars, graphVars, status, cost, retryCount, graphStatus, stopRequested,
                   inputVars, tickVars, planCalls, eventVars>>

\* Loop condition false (all_done), or the is_complete break: final status.
HeadDone ==
    /\ pc = "head"
    /\ ~HeadRaises
    /\ \/ all_done
       \/ /\ ~stopRequested /\ ReadySteps = <<>> /\ ~RunningOrWaiting
          /\ SkipPass(status, 1) = status /\ IsComplete(status)
    /\ graphStatus' = FinalStatus(graphStatus, status)
    /\ pc' = "dagdone"
    /\ UNCHANGED <<dataVars, cbVars, retryVars, reactVars, graphVars, status, cost, retryCount, stopRequested, inputVars,
                   tickVars, costWarningShown, planCalls, eventVars>>

\* stop_requested seen at the top of the loop: running nodes become stopped.
HeadStop ==
    /\ pc = "head"
    /\ ~HeadRaises
    /\ ~all_done
    /\ stopRequested
    /\ status' = [n \in AllIds |-> IF n \in Nodes /\ status[n] = "running"
                                   THEN "stopped" ELSE status[n]]
    /\ graphStatus' = FinalStatus(graphStatus, status')
    /\ pc' = "dagdone"
    /\ UNCHANGED <<dataVars, cbVars, retryVars, reactVars, graphVars, cost, retryCount, stopRequested, inputVars,
                   tickVars, costWarningShown, planCalls, eventVars>>

\* Nothing ready, nothing in flight: the skip pass marks at least one node.
HeadSkip ==
    /\ pc = "head"
    /\ ~HeadRaises
    /\ ~all_done /\ ~stopRequested
    /\ ReadySteps = <<>> /\ ~RunningOrWaiting
    /\ SkipPass(status, 1) # status
    /\ status' = SkipPass(status, 1)
    /\ UNCHANGED <<dataVars, cbVars, retryVars, reactVars, graphVars, cost, retryCount, graphStatus, stopRequested, inputVars,
                   pc, tickVars, costWarningShown, planCalls, eventVars>>

\* Nothing ready and nothing skipped (or something in flight): sleep(0.5).
HeadSleep ==
    /\ pc = "head"
    /\ ~HeadRaises
    /\ ~all_done /\ ~stopRequested
    /\ ReadySteps = <<>>
    /\ \/ RunningOrWaiting
       \/ SkipPass(status, 1) = status /\ ~IsComplete(status)
    /\ pc' = "sleep"
    /\ UNCHANGED <<dataVars, cbVars, retryVars, reactVars, graphVars, status, cost, retryCount, graphStatus, stopRequested,
                   inputVars, tickVars, costWarningShown, planCalls, eventVars>>

\* A status lookup at the head of the loop raises KeyError: the
\* _execute_dag task ends with the exception and run(), which awaits the
\* task, is woken in a later iteration of the event loop.
DagKeyError ==
    /\ pc = "head"
    /\ HeadRaises
    /\ pc' = "dagraised"
    /\ UNCHANGED <<dataVars, cbVars, retryVars, reactVars, graphVars, status, cost, retryCount, graphStatus, stopRequested,
                   inputVars, tickVars, costWarningShown, planCalls, eventVars>>

\* run() receives the exception of the _execute_dag task in its inner
\* except block.  Under stop_requested it breaks and returns; otherwise the
\* exception reaches the outer except block: running and pending nodes and
\* the graph become failed and run() raises.
DagRaised ==
    /\ pc = "dagraised"
    /\ IF stopRequested
       THEN UNCHANGED <<status, graphStatus>>
       ELSE /\ status' = FailAll(status)
            /\ graphStatus' = "failed"
    /\ pc' = "returned"
    /\ UNCHANGED <<dataVars, cbVars, retryVars, reactVars, graphVars, cost, retryCount, stopRequested, inputVars,
                   tickVars, costWarningShown, planCalls, eventVars>>

\* asyncio.sleep(0.5) returns; continue.
Wake ==
    /\ pc = "sleep"
    /\ pc' = "head"
    /\ UNCHANGED <<dataVars, cbVars, retryVars, reactVars, graphVars, status, cost, retryCount, graphStatus, stopRequested,
                   inputVars, tickVars, costWarningShown, planCalls, eventVars>>

\* ExecutionContextManager.mark_running on every step of a list
mark_running(st, steps) == [n \in AllIds |-> IF n \in Range(steps) THEN "running" ELSE st[n]]

\* A tick: every ready step is marked running and its _execute_step is
\* handed to gather; the step tasks start in a later iteration of the
\* event loop (StartSteps).
HeadDispatch ==
    /\ pc = "head"
    /\ ~HeadRaises
    /\ ~all_done /\ ~stopRequested
    /\ ReadySteps # <<>>
    /\ readySteps' = ReadySteps
    /\ status' = mark_running(status, ReadySteps)
    /\ stepState' = [n \in AllIds |-> IF n \in Range(ReadySteps) THEN "created" ELSE "idle"]
    /\ outCost' = [n \in AllIds |-> 0]
    /\ recIdx' = 0
    /\ turn' = [n \in AllIds |-> 1]
    /\ iterContext' = [n \in AllIds |-> NoContext]
    /\ finalWarning' = [n \in AllIds |-> FALSE]
    /\ toolErrors' = [n \in AllIds |-> 0]
    /\ workerCalls' = [n \in AllIds |-> 0]
    /\ outKind' = [n \in AllIds |-> "none"]
    /\ inputs' = [n \in AllIds |-> NoGlobals]
    /\ allGlobals' = [n \in AllIds |-> NoGlobals]
    /\ outData' = [n \in AllIds |-> IF n \in Range(ReadySteps)
                                    THEN NoOutput ELSE outData[n]]
    /\ pc' = "gather"
    /\ UNCHANGED <<globals, cbVars, retryVars, graphVars, cost, retryCount, graphStatus, stopRequested, inputVars,
                   costWarningShown, planCalls, eventVars>>

\* The step tasks of the tick start, one after the other in the same
\* iteration of the event loop: each publishes step_start, reads its
\* inputs and builds its first payload, then awaits the worker.
StartSteps ==
    /\ pc = "gather"
    /\ \E t \in Range(readySteps) : stepState[t] = "created"
    /\ stepState' = [n \in AllIds |-> IF stepState[n] = "created" THEN "worker"
                                      ELSE stepState[n]]
    /\ stepStarts' = [n \in AllIds |-> IF stepState[n] = "created"
                                       THEN stepStarts[n] + 1 ELSE stepStarts[n]]
    /\ inputs' = [n \in AllIds |-> IF stepState[n] = "created"
                                   THEN get_inputs(reads[n]) ELSE inputs[n]]
    /\ allGlobals' = [n \in AllIds |-> IF stepState[n] = "created"
                                       THEN AllGlobalsSchema(n) ELSE allGlobals[n]]
    /\ UNCHANGED <<globals, outData, cbVars, retryVars, reactVars, graphVars, status, cost, retryCount,
                   graphStatus, stopRequested, inputVars, pc, readySteps, outCost, recIdx,
                   costWarningShown, planCalls, stepFailedEvents, costWarnings>>

\* ---------------------------------------------- _execute_step (one task)
\* The execution of a step is followed here up to its result; the turns of
\* its ReAct loop are followed in SpecStep below.
InFlight(t) == pc = "gather" /\ stepState[t] = "worker"

\* ExecutionContextManager._is_clarification_request, for an output that
\* carries a clarificationMessage
is_clarification_request(t) == agent[t] = "ClarificationAgent"

\* A final answer (or the 15th turn) with an output of cost c.  When the
\* stop flag is up at the worker's return, the step returns the failure
\* 'Stop requested' instead; a flag raised after the last test of the step
\* (during its last tool call or code execution) has no effect on it.
StepFinal(t, c, d) ==
    /\ InFlight(t)
    /\ \/ /\ stepState' = [stepState EXCEPT ![t] = "ok"]
          /\ outCost' = [outCost EXCEPT ![t] = c]
          /\ outData' = [outData EXCEPT ![t] = d]
       \/ /\ stopRequested
          /\ stepState' = [stepState EXCEPT ![t] = "fail"]
          /\ UNCHANGED <<outCost, outData>>
    /\ UNCHANGED <<globals, inputs, allGlobals, cbVars, retryVars, reactVars, graphVars, status, cost, retryCount, graphStatus, stopRequested,
                   inputVars, pc, readySteps, recIdx, costWarningShown, planCalls,
                   eventVars>>

\* The worker reports success False, or its retries are exhausted.
StepFailure(t) ==
    /\ InFlight(t)
    /\ stepState' = [stepState EXCEPT ![t] = "fail"]
    /\ UNCHANGED <<dataVars, cbVars, retryVars, reactVars, graphVars, status, cost, retryCount, graphStatus, stopRequested,
                   inputVars, pc, readySteps, outCost, recIdx, costWarningShown,
                   planCalls, eventVars>>

\* _execute_step raises (e.g. the output is not a dict); gather returns the
\* exception as the result.
StepException(t) ==
    /\ InFlight(t)
    /\ stepState' = [stepState EXCEPT ![t] = "exc"]
    /\ UNCHANGED <<dataVars, cbVars, retryVars, reactVars, graphVars, status, cost, retryCount, graphStatus, stopRequested,
                   inputVars, pc, readySteps, outCost, recIdx, costWarningShown,
                   planCalls, eventVars>>

\* The output carries a clarificationMessage: _execute_step calls mark_done.
\* For a clarification task mark_done sets waiting_input and
\* _handle_user_interaction clears the event and the value and waits; for
\* any other task mark_done records the completion at once.  Under the stop
\* flag the wait loop is not entered and mark_done sets the node failed.
StepClarification(t, c, d) ==
    /\ InFlight(t)
    /\ outCost' = [outCost EXCEPT ![t] = c]
    /\ outData' = [outData EXCEPT ![t] = d]
    /\ IF is_clarification_request(t)
       THEN /\ status' = [status EXCEPT ![t] = IF stopRequested THEN "failed"
                                                ELSE "waiting_input"]
            /\ userInputEvent' = FALSE
            /\ userInputValue' = "None"
            /\ woken' = woken \ {t}
            /\ stepState' = [stepState EXCEPT ![t] = IF stopRequested THEN "okclar"
                                                      ELSE "waiting"]
            /\ cost' = cost
            /\ globals' = globals
       ELSE /\ status' = [status EXCEPT ![t] = "completed"]
            /\ cost' = [cost EXCEPT ![t] = c]
            /\ stepState' = [stepState EXCEPT ![t] = "okclar"]
            /\ globals' = Extract(globals, t, d)
            /\ UNCHANGED inputVars
    /\ UNCHANGED <<inputs, allGlobals, cbVars, retryVars, reactVars, graphVars, retryCount, graphStatus, stopRequested, pc, readySteps,
                   recIdx, costWarningShown, planCalls, eventVars>>

\* The wait of t was woken by a set(): the task resumes, whatever happened
\* to the event since, _handle_user_interaction returns the value it reads
\* now, mark_done records the completion and _execute_step returns success.
\* Under the stop flag the wait ends with the wake-up or with the next
\* time-out, and mark_done sets the node failed.
StepResume(t) ==
    /\ pc = "gather"
    /\ stepState[t] = "waiting"
    /\ woken' = woken \ {t}
    /\ stepState' = [stepState EXCEPT ![t] = "okclar"]
    /\ IF stopRequested
       THEN /\ status' = [status EXCEPT ![t] = "failed"]
            /\ UNCHANGED <<cost, globals>>
       ELSE /\ t \in woken
            /\ status' = [status EXCEPT ![t] = "completed"]
            /\ cost' = [cost EXCEPT ![t] = outCost[t]]
            /\ globals' = Extract(SaveInteraction(globals, outData[t], userInputValue),
                                  t, outData[t])
    /\ UNCHANGED <<inputs, allGlobals, outData, cbVars, retryVars, reactVars, graphVars, retryCount, graphStatus, stopRequested,
                   userInputEvent, userInputValue, pc,
                   readySteps, outCost, recIdx, costWarningShown, planCalls, eventVars>>

\* Every _execute_step of the tick has a result: gather returns.
GatherReturn ==
    /\ pc = "gather"
    /\ \A t \in Range(readySteps) : stepState[t] \in {"ok", "okclar", "fail", "exc"}
    /\ pc' = "record"
    /\ recIdx' = 1
    /\ UNCHANGED <<dataVars, cbVars, retryVars, reactVars, graphVars, status, cost, retryCount, graphStatus, stopRequested,
                   inputVars, readySteps, stepState, outCost, costWarningShown,
                   planCalls, eventVars>>

\* ------------------------------------------- _execute_dag: result loop
Recording(t) == pc = "record" /\ recIdx <= Len(readySteps) /\ t = readySteps[recIdx]

\* retry_count < MAX_STEP_RETRIES
CanRetry(r) == r < MAX_STEP_RETRIES

\* The result is an exception or a failure: re-queue or mark_failed with a
\* step_failed event.
RecordFailure(t) ==
    /\ Recording(t)
    /\ stepState[t] \in {"fail", "exc"}
    /\ IF CanRetry(retryCount[t])
       THEN /\ retryCount' = [retryCount EXCEPT ![t] = retryCount[t] + 1]
            /\ status' = [status EXCEPT ![t] = "pending"]
            /\ UNCHANGED stepFailedEvents
       ELSE /\ status' = [status EXCEPT ![t] = "failed"]
            /\ stepFailedEvents' = [stepFailedEvents EXCEPT ![t] = @ + 1]
            /\ UNCHANGED retryCount
    /\ recIdx' = recIdx + 1
    /\ UNCHANGED <<dataVars, cbVars, retryVars, reactVars, graphVars, cost, graphStatus, stopRequested, inputVars, pc,
                   readySteps, stepState, outCost, costWarningShown, planCalls,
                   stepStarts, costWarnings>>

\* The result is a success and mark_done finds no clarification request:
\* the node is completed with the cost of its output.
RecordDone(t) ==
    /\ Recording(t)
    /\ \/ stepState[t] = "ok"
       \/ stepState[t] = "okclar" /\ ~is_clarification_request(t)
    /\ status' = [status EXCEPT ![t] = "completed"]
    /\ cost' = [cost EXCEPT ![t] = outCost[t]]
    /\ globals' = Extract(globals, t, outData[t])
    /\ recIdx' = recIdx + 1
    /\ UNCHANGED <<inputs, allGlobals, outData, cbVars, retryVars, reactVars, graphVars, retryCount, graphStatus, stopRequested, inputVars, pc,
                   readySteps, stepState, outCost, costWarningShown, planCalls,
                   eventVars>>

\* The result is a success whose output is a clarification request:
\* mark_done sets waiting_input and waits for the event again; when the stop
\* flag is already up the wait loop is not entered and the node is failed.
RecordClarification(t) ==
    /\ Recording(t)
    /\ stepState[t] = "okclar" /\ is_clarification_request(t)
    /\ userInputEvent' = FALSE
    /\ userInputValue' = "None"
    /\ woken' = woken \ {t}
    /\ IF stopRequested
       THEN /\ status' = [status EXCEPT ![t] = "failed"]
            /\ recIdx' = recIdx + 1
            /\ pc' = pc
       ELSE /\ status' = [status EXCEPT ![t] = "waiting_input"]
            /\ recIdx' = recIdx
            /\ pc' = "recwait"
    /\ UNCHANGED <<dataVars, cbVars, retryVars, reactVars, graphVars, cost, retryCount, graphStatus, stopRequested,
                   readySteps, stepState, outCost, costWarningShown, planCalls,
                   eventVars>>

\* The wait of the result loop inside mark_done was woken by a set(), or
\* ends under the stop flag with the node failed.
RecordResume ==
    /\ pc = "recwait"
    /\ woken' = woken \ {readySteps[recIdx]}
    /\ LET t == readySteps[recIdx]
       IN IF stopRequested
          THEN /\ status' = [status EXCEPT ![t] = "failed"]
               /\ UNCHANGED <<cost, globals>>
          ELSE /\ t \in woken
               /\ status' = [status EXCEPT ![t] = "completed"]
               /\ cost' = [cost EXCEPT ![t] = outCost[t]]
               /\ globals' = Extract(SaveInteraction(globals, outData[t], userInputValue),
                                     t, outData[t])
    /\ recIdx' = recIdx + 1
    /\ pc' = "record"
    /\ UNCHANGED <<inputs, allGlobals, outData, cbVars, retryVars, reactVars, graphVars, retryCount, graphStatus, stopRequested,
                   userInputEvent, userInputValue,
                   readySteps, stepState, outCost, costWarningShown, planCalls,
                   eventVars>>

\* A budget test against the warning threshold.
CostExceededAtWarn(acc) == acc >= WarnAtCost

\* accumulated_cost >= warn_cost
CostWarned(acc) == acc >= WarnAtCost

\* accumulated_cost >= max_cost
CostExceeded(acc) == acc >= MaxCostPerRun

\* End of a tick: the cost threshold check, then the loop continues or
\* breaks into the final status block.
CostCheck ==
    /\ pc = "record"
    /\ recIdx > Len(readySteps)
    /\ costWarningShown' = (costWarningShown \/ CostWarned(AccumulatedCost))
    /\ costWarnings' = IF ~costWarningShown /\ CostWarned(AccumulatedCost)
                       THEN costWarnings + 1 ELSE costWarnings
    /\ IF CostExceeded(AccumulatedCost)
       THEN /\ graphStatus' = "cost_exceeded"
            /\ pc' = "dagdone"
       ELSE /\ graphStatus' = graphStatus
            /\ pc' = "head"
    /\ readySteps' = <<>>
    /\ stepState' = [n \in AllIds |-> "idle"]
    /\ outCost' = [n \in AllIds |-> 0]
    /\ recIdx' = 0
    /\ UNCHANGED <<dataVars, cbVars, retryVars, reactVars, graphVars, status, cost, retryCount, stopRequested, inputVars,
                   planCalls, stepStarts, stepFailedEvents>>

\* ------------------------------------------- run(): after _execute_dag
\* stop_requested: break.  _should_replan: Query is set running and the
\* planner is called again.  Otherwise run() returns.
AfterDag ==
    /\ pc = "dagdone"
    /\ IF ~stopRequested /\ AllDoneRaises(status)
       THEN /\ status' = FailAll(status)
            /\ graphStatus' = "failed"
            /\ pc' = "returned"
       ELSE IF ~stopRequested /\ should_replan
       THEN /\ status' = [status EXCEPT !["Query"] = "running"]
            /\ graphStatus' = graphStatus
            /\ pc' = "planning"
       ELSE /\ status' = status
            /\ graphStatus' = graphStatus
            /\ pc' = "returned"
    /\ UNCHANGED <<dataVars, cbVars, retryVars, reactVars, graphVars, cost, retryCount, stopRequested, inputVars,
                   tickVars, costWarningShown, planCalls, eventVars>>

\* ------------------------------------------------------- external calls
\* The tasks blocked in user_input_event.wait(): the steps of the tick that
\* wait inside _execute_step, or the result loop inside mark_done.
Waiters ==
    {t \in Range(readySteps) : pc = "gather" /\ stepState[t] = "waiting"}
        \cup (IF pc = "recwait" THEN {readySteps[recIdx]} ELSE {})

\* Where run() stands while a CancelledError is on its way to it.
CancelPoints == {"cancel_profiling", "cancel_planning", "cancel_dag", "cancel_gather",
                 "cancel_recwait"}

\* Where a call from outside finds run(): suspended in one of its awaits,
\* or finished (the loop stays in active_loops after run() has returned or
\* raised).
ExternalPoints == {"profiling", "planning", "dagstart", "gather", "sleep", "recwait",
                   "dagdone", "dagraised", "returned"} \cup CancelPoints

\* ExecutionContextManager.provide_user_input (POST /runs/{id}/input):
\* Event.set() on a clear event wakes every waiter; the wake-up stays with
\* the waiter when the event is cleared again before it runs.
ProvideInput ==
    /\ pc \in ExternalPoints
    /\ ~(userInputEvent /\ userInputValue = "answer")
    /\ userInputValue' = "answer"
    /\ userInputEvent' = TRUE
    /\ woken' = IF userInputEvent THEN woken ELSE woken \cup Waiters
    /\ UNCHANGED <<dataVars, cbVars, retryVars, reactVars, graphVars, status, cost, retryCount, graphStatus, stopRequested,
                   pc, tickVars, costWarningShown, planCalls, eventVars>>

\* ExecutionContextManager.stop: the stop flag is raised and the event set;
\* no task is cancelled, the loops of run() see the flag at their next
\* test.
ContextStop ==
    /\ pc \in ExternalPoints
    /\ ~(stopRequested /\ userInputEvent)
    /\ stopRequested' = TRUE
    /\ userInputEvent' = TRUE
    /\ woken' = IF userInputEvent THEN woken ELSE woken \cup Waiters
    /\ UNCHANGED <<dataVars, cbVars, retryVars, reactVars, graphVars, status, cost, retryCount, graphStatus,
                   userInputValue, pc, tickVars, costWarningShown, planCalls, eventVars>>

\* Where run() stands after AgentLoop4.stop has called cancel() on the
\* tracked tasks that are not done.  While run() awaits the distiller or
\* the planner the tracked task may already have finished, with run() not
\* yet woken: then nothing is cancelled.  The _execute_dag task is not
\* done while it has not started, awaits gather or sleep, or waits for a
\* human answer inside mark_done.  At "dagdone", "dagraised" and "returned"
\* no tracked task is left, and a task already being cancelled stays so.
AfterCancel(at) ==
    CASE at = "profiling" -> {"profiling", "cancel_profiling"}
      [] at = "planning" -> {"planning", "cancel_planning"}
      [] at \in {"dagstart", "sleep"} -> {"cancel_dag"}
      [] at = "gather" -> {"cancel_gather"}
      [] at = "recwait" -> {"cancel_recwait"}
      [] OTHER -> {at}

\* AgentLoop4.stop: ExecutionContextManager.stop raises the flag and sets
\* the event, then cancel() is called on every tracked task that is not
\* done.  The call itself changes nothing else: the CancelledError is
\* delivered in a later iteration of the event loop.
Stop ==
    /\ pc \in ExternalPoints
    /\ stopRequested' = TRUE
    /\ userInputEvent' = TRUE
    /\ woken' = IF userInputEvent THEN woken ELSE woken \cup Waiters
    /\ pc' \in AfterCancel(pc)
    /\ UNCHANGED <<dataVars, cbVars, retryVars, reactVars, graphVars, status, cost, retryCount, graphStatus,
                   userInputValue, tickVars, costWarningShown, planCalls, eventVars>>

\* The cancellation of the distiller task reaches run() outside its try
\* blocks: run() raises CancelledError and touches nothing.
CancelProfiling ==
    /\ pc = "cancel_profiling"
    /\ pc' = "returned"
    /\ UNCHANGED <<dataVars, cbVars, retryVars, reactVars, graphVars, status, cost, retryCount, graphStatus, stopRequested,
                   inputVars, tickVars, costWarningShown, planCalls, eventVars>>

\* The cancellation of the planner task reaches the outer except block of
\* run(): running and pending nodes and the graph become stopped.
CancelPlanning ==
    /\ pc = "cancel_planning"
    /\ status' = StopAll(status)
    /\ graphStatus' = "stopped"
    /\ pc' = "returned"
    /\ UNCHANGED <<dataVars, cbVars, retryVars, reactVars, graphVars, cost, retryCount, stopRequested, inputVars,
                   tickVars, costWarningShown, planCalls, eventVars>>

\* The cancellation reaches a step of the tick that waits for a human
\* answer in wait_for after the event was set: wait_for swallows it,
\* _handle_user_interaction returns and mark_done marks the node failed.
\* The gather, the _execute_dag task and run() are still suspended.
CancelStepSwallowed(t) ==
    /\ pc = "cancel_gather"
    /\ t \in Range(readySteps)
    /\ stepState[t] = "waiting"
    /\ status' = [status EXCEPT ![t] = "failed"]
    /\ stepState' = [stepState EXCEPT ![t] = "okclar"]
    /\ woken' = woken \ {t}
    /\ UNCHANGED <<dataVars, cbVars, retryVars, reactVars, graphVars, cost, retryCount, graphStatus, stopRequested,
                   userInputEvent, userInputValue, pc, readySteps, outCost, recIdx,
                   costWarningShown, planCalls, eventVars>>

\* The cancelled step tasks and the gather have ended, the _execute_dag
\* task ends cancelled and the CancelledError reaches run() in its inner
\* except block, which breaks: run() returns without touching node or
\* graph status.  A step still waiting for a human answer is one whose
\* cancellation was raised by wait_for during its time-out handling: its
\* task ended with the gather and its node stays waiting_input.
CancelDag ==
    /\ pc \in {"cancel_dag", "cancel_gather"}
    /\ pc' = "returned"
    /\ UNCHANGED <<dataVars, cbVars, retryVars, reactVars, graphVars, status, cost, retryCount, graphStatus, stopRequested,
                   inputVars, tickVars, costWarningShown, planCalls, eventVars>>

\* The cancellation finds the result loop waiting for a human answer
\* inside mark_done and wait_for swallows it: mark_done marks the node
\* failed and the result loop goes on.
CancelRecordSwallowed ==
    /\ pc = "cancel_recwait"
    /\ status' = [status EXCEPT ![readySteps[recIdx]] = "failed"]
    /\ woken' = woken \ {readySteps[recIdx]}
    /\ recIdx' = recIdx + 1
    /\ pc' = "record"
    /\ UNCHANGED <<dataVars, cbVars, retryVars, reactVars, graphVars, cost, retryCount, graphStatus, stopRequested,
                   userInputEvent, userInputValue, readySteps, stepState, outCost,
                   costWarningShown, planCalls, eventVars>>

\* The same cancellation when it propagates out of wait_for: the
\* _execute_dag task ends cancelled and run() breaks and returns.
CancelRecordCancelled ==
    /\ pc = "cancel_recwait"
    /\ pc' = "returned"
    /\ UNCHANGED <<dataVars, cbVars, retryVars, reactVars, graphVars, status, cost, retryCount, graphStatus, stopRequested,
                   inputVars, tickVars, costWarningShown, planCalls, eventVars>>

\* The event loop delivers a requested cancellation.
Cancel ==
    \/ CancelProfiling
    \/ CancelPlanning
    \/ \E t \in TaskIds \cup {AutoClarifyId} : CancelStepSwallowed(t)
    \/ CancelDag
    \/ CancelRecordSwallowed
    \/ CancelRecordCancelled

PlannerCosts == {0}

Next ==
    \/ ProfileFiles
    \/ ProfileRaise
    \/ \E p \in Plans, c \in PlannerCosts : PlanOk(p, c)
    \/ PlanFail
    \/ PlanStopped
    \/ DagStart
    \/ HeadDone
    \/ HeadStop
    \/ HeadSkip
    \/ HeadSleep
    \/ Wake
    \/ HeadDispatch
    \/ StartSteps
    \/ \E t \in TaskIds \cup {AutoClarifyId} :
          \/ \E c \in Costs, d \in FinalOutputs(t) : StepFinal(t, c, d)
          \/ StepFailure(t)
          \/ StepException(t)
          \/ \E c \in Costs, d \in ClarificationOutputs(t) : StepClarification(t, c, d)
          \/ StepResume(t)
          \/ RecordFailure(t)
          \/ RecordDone(t)
          \/ RecordClarification(t)
    \/ GatherReturn
    \/ RecordResume
    \/ CostCheck
    \/ AfterDag
    \/ ProvideInput
    \/ ContextStop
    \/ Stop
    \/ Cancel

Spec == Init /\ [][Next]_vars

\* Steps of the program itself: the planner and the workers return, the
\* event loop runs whatever is runnable.  The human answer and the stop
\* request come from outside and may never come.
ProgramNext ==
    \/ ProfileFiles
    \/ ProfileRaise
    \/ \E p \in Plans, c \in PlannerCosts : PlanOk(p, c)
    \/ PlanFail
    \/ PlanStopped
    \/ DagStart
    \/ HeadDone
    \/ HeadStop
    \/ HeadSkip
    \/ HeadSleep
    \/ Wake
    \/ HeadDispatch
    \/ StartSteps
    \/ \E t \in TaskIds \cup {AutoClarifyId} :
          \/ \E c \in Costs, d \in FinalOutputs(t) : StepFinal(t, c, d)
          \/ StepFailure(t)
          \/ StepException(t)
          \/ \E c \in Costs, d \in ClarificationOutputs(t) : StepClarification(t, c, d)
          \/ StepResume(t)
          \/ RecordFailure(t)
          \/ RecordDone(t)
          \/ RecordClarification(t)
    \/ GatherReturn
    \/ RecordResume
    \/ CostCheck
    \/ AfterDag

\* Spec with the event loop always running what is runnable.
SpecLive == Init /\ [][Next]_vars /\ WF_vars(ProgramNext)

\* ------------------------------------------- plans with reads and writes
\* SpecData follows run() for planner outputs whose nodes declare reads
\* and writes.
DClarAlone == [nodes |-> <<ND("C", "ClarificationAgent", <<>>, <<"k">>), N("B", "CoderAgent")>>,
               edges |-> <<>>,
               confidence |-> 100, ambiguityNotes |-> 0, nextStep |-> "C"]
DClarReads == [nodes |-> <<ND("C", "ClarificationAgent", <<>>, <<"k">>),
                           ND("B", "CoderAgent", <<"k">>, <<>>)>>,
               edges |-> <<(<<"C", "B">>)>>,
               confidence |-> 100, ambiguityNotes |-> 0, nextStep |-> "C"]
DClarWired == [nodes |-> <<ND("C", "ClarificationAgent", <<>>, <<"k">>), N("B", "CoderAgent")>>,
               edges |-> <<(<<"C", "B">>)>>,
               confidence |-> 100, ambiguityNotes |-> 0, nextStep |-> "C"]
\* A writes x and B, behind it, reads x.
DChain == [nodes |-> <<ND("A", "CoderAgent", <<>>, <<"x">>),
                       ND("B", "CoderAgent", <<"x">>, <<"y">>)>>,
           edges |-> <<(<<"A", "B">>)>>,
           confidence |-> 100, ambiguityNotes |-> 0, nextStep |-> "A"]
\* B reads x and stands behind C only; A, beside them, writes x.
DBeside == [nodes |-> <<ND("A", "CoderAgent", <<>>, <<"x">>),
                        ND("C", "CoderAgent", <<>>, <<"z">>),
                        ND("B", "CoderAgent", <<"x">>, <<"y">>)>>,
            edges |-> <<(<<"C", "B">>)>>,
            confidence |-> 100, ambiguityNotes |-> 0, nextStep |-> "A"]
\* A writes x; a FormatterAgent beside it.
DFormat == [nodes |-> <<ND("A", "CoderAgent", <<>>, <<"x">>),
                        ND("B", "FormatterAgent", <<>>, <<"y">>)>>,
            edges |-> <<>>,
            confidence |-> 100, ambiguityNotes |-> 0, nextStep |-> "A"]
DataPlans == {DClarAlone, DClarReads, DClarWired, DChain, DBeside, DFormat}

\* A turn of the ReAct loop of t that ends in `continue` (a tool call or
\* call_self): current_input is rebuilt by build_agent_input.
StepTurn(t) ==
    /\ InFlight(t)
    /\ allGlobals' = [allGlobals EXCEPT ![t] = AllGlobalsSchema(t)]
    /\ UNCHANGED <<globals, inputs, outData, cbVars, retryVars, reactVars, graphVars, status, cost,
                   retryCount, graphStatus, stopRequested, inputVars, pc, tickVars,
                   costWarningShown, planCalls, eventVars>>

NextData ==
    \/ ProfileFiles
    \/ ProfileRaise
    \/ \E p \in DataPlans, c \in PlannerCosts : PlanOk(p, c)
    \/ PlanFail
    \/ PlanStopped
    \/ DagStart
    \/ HeadDone
    \/ HeadStop
    \/ HeadSkip
    \/ HeadDispatch
    \/ StartSteps
    \/ \E t \in TaskIds :
          \/ StepTurn(t)
          \/ \E c \in Costs, d \in FinalOutputs(t) : StepFinal(t, c, d)
          \/ StepFailure(t)
          \/ StepException(t)
          \/ \E c \in Costs, d \in ClarificationOutputs(t) : StepClarification(t, c, d)
          \/ StepResume(t)
          \/ RecordFailure(t)
          \/ RecordDone(t)
          \/ RecordClarification(t)
    \/ GatherReturn
    \/ RecordResume
    \/ CostCheck
    \/ AfterDag
    \/ ProvideInput
    \/ ContextStop
    \/ Stop
    \/ Cancel

SpecData == Init /\ [][NextData]_vars

\* ----------------------------------------------------- auto-clarification
\* SpecClarify follows run() for planner outputs on both sides of each
\* condition of the AUTO-CLARIFICATION CHECK.
QLow == [nodes |-> <<N("A", "CoderAgent"), N("B", "CoderAgent")>>,
         edges |-> <<(<<"A", "B">>)>>,
         confidence |-> 69, ambiguityNotes |-> 1, nextStep |-> "A"]
QAtThreshold == [QLow EXCEPT !.confidence = 70]
QNoNotes == [QLow EXCEPT !.ambiguityNotes = 0]
QOwnClarification == [nodes |-> <<N("C", "ClarificationAgent"), N("A", "CoderAgent")>>,
                      edges |-> <<(<<"C", "A">>)>>,
                      confidence |-> 69, ambiguityNotes |-> 1, nextStep |-> "C"]
QClarOrphan == [nodes |-> <<N("C", "ClarificationAgent"), N("A", "CoderAgent")>>,
                edges |-> <<>>,
                confidence |-> 100, ambiguityNotes |-> 0, nextStep |-> "C"]
ClarifyPlans == {QLow, QAtThreshold, QNoNotes, QOwnClarification, QClarOrphan}

NextClarify ==
    \/ ProfileFiles
    \/ ProfileRaise
    \/ \E p \in ClarifyPlans, c \in PlannerCosts : PlanOk(p, c)
    \/ PlanFail
    \/ PlanStopped
    \/ DagStart
    \/ HeadDone
    \/ HeadStop
    \/ HeadSkip
    \/ HeadDispatch
    \/ StartSteps
    \/ \E t \in TaskIds \cup {AutoClarifyId} :
          \/ \E c \in Costs, d \in FinalOutputs(t) : StepFinal(t, c, d)
          \/ StepFailure(t)
          \/ StepException(t)
          \/ \E c \in Costs, d \in ClarificationOutputs(t) : StepClarification(t, c, d)
          \/ StepResume(t)
          \/ RecordFailure(t)
          \/ RecordDone(t)
          \/ RecordClarification(t)
    \/ GatherReturn
    \/ RecordResume
    \/ CostCheck
    \/ AfterDag
    \/ ProvideInput
    \/ ContextStop
    \/ Stop
    \/ Cancel

SpecClarify == Init /\ [][NextClarify]_vars

\* ----------------------------------------------- the plan/execute loop
\* SpecReplan follows run() through any number of planner calls, with every
\* planner and worker call returning a result and every clarification
\* answered: the event loop runs what is runnable and provide_user_input
\* is called while a task waits.
RClarOrphan == [nodes |-> <<N("C", "ClarificationAgent"), N("A", "CoderAgent")>>,
                edges |-> <<>>,
                confidence |-> 100, ambiguityNotes |-> 0, nextStep |-> "C"]
RNextSteps == [nodes |-> <<N("B", "CoderAgent")>>,
               edges |-> <<(<<"A", "B">>)>>,
               confidence |-> 100, ambiguityNotes |-> 0, nextStep |-> "B"]
RAfterClarification == [nodes |-> <<N("B", "CoderAgent")>>,
                        edges |-> <<(<<"C", "B">>)>>,
                        confidence |-> 100, ambiguityNotes |-> 0, nextStep |-> "B"]
ReplanPlans == {RClarOrphan, RNextSteps, RAfterClarification}

ProgramReplan ==
    \/ ProfileFiles
    \/ \E p \in ReplanPlans, c \in PlannerCosts : PlanOk(p, c) \/ PlanAgain(p, c)
    \/ DagStart
    \/ HeadDone
    \/ DagKeyError
    \/ DagRaised
    \/ HeadDispatch
    \/ StartSteps
    \/ \E t \in TaskIds :
          \/ \E c \in Costs, d \in FinalOutputs(t) : StepFinal(t, c, d)
          \/ \E c \in Costs, d \in ClarificationOutputs(t) : StepClarification(t, c, d)
          \/ StepResume(t)
          \/ RecordDone(t)
          \/ RecordClarification(t)
    \/ GatherReturn
    \/ RecordResume
    \/ CostCheck
    \/ AfterDag

NextReplan == ProgramReplan \/ ProvideInput

SpecReplan ==
    /\ Init
    /\ [][NextReplan]_vars
    /\ WF_vars(ProgramReplan)
    /\ WF_vars(ProvideInput)

\* ------------------------------------------- two tasks waiting for input
\* SpecInput follows runs whose plan holds two clarification tasks that are
\* ready in the same tick: both call mark_done from _execute_step and both
\* wait on the one user_input_event of the context.
ITwoClarifications == [nodes |-> <<N("C", "ClarificationAgent"),
                                   N("B", "ClarificationAgent")>>,
                       edges |-> <<>>,
                       confidence |-> 100, ambiguityNotes |-> 0, nextStep |-> "C"]

NextInput ==
    \/ ProfileFiles
    \/ ProfileRaise
    \/ \E c \in PlannerCosts : PlanOk(ITwoClarifications, c)
    \/ PlanStopped
    \/ DagStart
    \/ HeadDone
    \/ HeadStop
    \/ HeadDispatch
    \/ StartSteps
    \/ \E t \in TaskIds :
          \/ \E c \in Costs, d \in FinalOutputs(t) : StepFinal(t, c, d)
          \/ \E c \in Costs, d \in ClarificationOutputs(t) : StepClarification(t, c, d)
          \/ StepResume(t)
          \/ RecordFailure(t)
          \/ RecordDone(t)
          \/ RecordClarification(t)
    \/ GatherReturn
    \/ RecordResume
    \/ CostCheck
    \/ AfterDag
    \/ ProvideInput
    \/ ContextStop
    \/ Stop
    \/ Cancel

SpecInput == Init /\ [][NextInput]_vars

\* ---------------------------------------------------- retry_with_backoff
\* SpecRetry follows one call of retry_with_backoff(async_func,
\* max_retries, base_delay) with the default retryable_errors.
DefaultMaxRetries == 3
\* What a call of async_func can do: return, or raise one of these.
Outcomes == {"ok", "TimeoutError", "ConnectionError", "ValueError", "CancelledError"}
\* retryable_errors (asyncio.TimeoutError is TimeoutError)
Retryable == {"TimeoutError", "ConnectionError"}
BaseDelays == {1, 2}

mainVars == <<graphVars, status, cost, retryCount, graphStatus, stopRequested, inputVars,
              pc, tickVars, costWarningShown, planCalls, eventVars, reactVars, dataVars>>

\* A delay that does not grow with the attempt.
RetryDelayConstant(base, attempt) == base

\* delay = base_delay * (2**attempt)
RetryDelay(base, attempt) == base * 2^attempt

InitRetry ==
    /\ Bootstrap
    /\ pc = "planning"
    /\ BreakerIdle
    /\ rbMax \in 0..MaxRetryParam
    /\ rbBase \in BaseDelays
    /\ rbScript \in [1..rbMax -> Outcomes]
    /\ rbAttempt = 0
    /\ rbLast = NoException
    /\ rbState = "call"
    /\ rbCalls = 0
    /\ rbDelays = <<>>
    /\ rbRaised = NoException

\* `return await async_func()` of the current attempt: it returns, raises
\* a retryable error (sleep, or fall out of the loop on the last attempt
\* and raise last_exception), or raises anything else, which propagates.
RbCall ==
    /\ rbState = "call"
    /\ rbAttempt < rbMax
    /\ rbCalls' = rbCalls + 1
    /\ LET o == rbScript[rbCalls + 1]
           e == [kind |-> o, attempt |-> rbAttempt]
       IN IF o = "ok"
          THEN /\ rbState' = "returned"
               /\ UNCHANGED <<rbAttempt, rbLast, rbDelays, rbRaised>>
          ELSE IF o \in Retryable
          THEN /\ rbLast' = e
               /\ IF rbAttempt < rbMax - 1
                  THEN /\ rbDelays' = Append(rbDelays, RetryDelay(rbBase, rbAttempt))
                       /\ rbState' = "sleep"
                       /\ UNCHANGED <<rbAttempt, rbRaised>>
                  ELSE /\ rbAttempt' = rbAttempt + 1
                       /\ rbState' = "raised"
                       /\ rbRaised' = e
                       /\ UNCHANGED rbDelays
          ELSE /\ rbState' = "raised"
               /\ rbRaised' = e
               /\ UNCHANGED <<rbAttempt, rbLast, rbDelays>>
    /\ UNCHANGED <<mainVars, cbVars, rbMax, rbBase, rbScript>>

\* asyncio.sleep(delay) returns: the next attempt.
RbWake ==
    /\ rbState = "sleep"
    /\ rbAttempt' = rbAttempt + 1
    /\ rbState' = "call"
    /\ UNCHANGED <<mainVars, cbVars, rbMax, rbBase, rbScript, rbLast, rbCalls, rbDelays, rbRaised>>

\* range(max_retries) is empty: RuntimeError, no exception captured.
RbNoAttempt ==
    /\ rbState = "call"
    /\ rbAttempt >= rbMax
    /\ rbState' = "raised"
    /\ rbRaised' = [kind |-> "RuntimeError", attempt |-> rbAttempt]
    /\ UNCHANGED <<mainVars, cbVars, rbMax, rbBase, rbScript, rbAttempt, rbLast, rbCalls, rbDelays>>

NextRetry == RbCall \/ RbWake \/ RbNoAttempt

SpecRetry == InitRetry /\ [][NextRetry]_vars

\* --------------------------------------------------------- CircuitBreaker
\* SpecBreaker follows one CircuitBreaker under any order of calls while
\* the clock advances.  Every method holds the lock for its whole body.
BreakerThresholds == {1, 2}
BreakerTimeouts == {0, 2}
BreakerMaxCalls == {1, 2}

InitBreaker ==
    /\ Bootstrap
    /\ pc = "planning"
    /\ RetryIdle
    /\ \E th \in BreakerThresholds, to \in BreakerTimeouts, mc \in BreakerMaxCalls :
          cb = NewBreaker(th, to, mc)
    /\ cbNow = 1
    /\ cbHist = NoCall

\* CircuitBreaker._transition_to
transition_to(c, new) ==
    [c EXCEPT !.state = new, !.half_open_calls = 0, !.success_count = 0,
              !.failure_count = IF new = "CLOSED" THEN 0 ELSE @]

\* A threshold test that opens one failure late.
ThresholdPassed(c) == c.failure_count > c.failure_threshold
\* self.failure_count >= self.failure_threshold
ThresholdReached(c) == c.failure_count >= c.failure_threshold

\* A HALF_OPEN test that admits one call more.
HalfOpenAdmitsOneMore(c) == c.half_open_calls <= c.half_open_max_calls
\* self.half_open_calls < self.half_open_max_calls
HalfOpenAdmits(c) == c.half_open_calls < c.half_open_max_calls

\* time.time() - self.last_failure_time >= self.recovery_timeout
TimeoutElapsed(c) == cbNow - c.last_failure_time >= c.recovery_timeout

\* The record of a call: admitted is kept while the breaker is HALF_OPEN.
Called(op, result, c, failedAt) ==
    [op |-> op, result |-> result, lastFailure |-> failedAt,
     admitted |-> IF c.state # "HALF_OPEN" THEN 0
                  ELSE IF op = "can_execute" /\ result = "True"
                       THEN (IF cb.state = "HALF_OPEN" THEN cbHist.admitted ELSE 0) + 1
                       ELSE cbHist.admitted]

CanExecute ==
    /\ LET admit == \/ cb.state = "CLOSED"
                    \/ cb.state = "OPEN" /\ TimeoutElapsed(cb)
                    \/ cb.state = "HALF_OPEN" /\ HalfOpenAdmits(cb)
           c == IF cb.state = "OPEN" /\ TimeoutElapsed(cb)
                THEN transition_to(cb, "HALF_OPEN")
                ELSE IF cb.state = "HALF_OPEN" /\ HalfOpenAdmits(cb)
                THEN [cb EXCEPT !.half_open_calls = @ + 1]
                ELSE cb
       IN /\ cb' = c
          /\ cbHist' = Called("can_execute", IF admit THEN "True" ELSE "False", c,
                              cbHist.lastFailure)
    /\ UNCHANGED <<cbNow, mainVars, retryVars>>

RecordSuccess ==
    /\ LET c == IF cb.state = "HALF_OPEN"
                THEN IF cb.success_count + 1 >= cb.half_open_max_calls
                     THEN transition_to([cb EXCEPT !.success_count = @ + 1], "CLOSED")
                     ELSE [cb EXCEPT !.success_count = @ + 1]
                ELSE IF cb.state = "CLOSED"
                THEN [cb EXCEPT !.failure_count = IF @ > 0 THEN @ - 1 ELSE 0]
                ELSE cb
       IN /\ cb' = c
          /\ cbHist' = Called("record_success", "None", c, cbHist.lastFailure)
    /\ UNCHANGED <<cbNow, mainVars, retryVars>>

RecordBreakerFailure ==
    /\ cb.failure_count < MaxFailureCount
    /\ LET c1 == [cb EXCEPT !.failure_count = @ + 1, !.last_failure_time = cbNow]
           c == IF cb.state = "HALF_OPEN" THEN transition_to(c1, "OPEN")
                ELSE IF cb.state = "CLOSED" /\ ThresholdReached(c1)
                THEN transition_to(c1, "OPEN")
                ELSE c1
       IN /\ cb' = c
          /\ cbHist' = Called("record_failure", "None", c, cbNow)
    /\ UNCHANGED <<cbNow, mainVars, retryVars>>

ForceOpen ==
    /\ LET c == [transition_to(cb, "OPEN") EXCEPT !.last_failure_time = cbNow]
       IN /\ cb' = c
          /\ cbHist' = Called("force_open", "None", c, cbHist.lastFailure)
    /\ UNCHANGED <<cbNow, mainVars, retryVars>>

ForceClose ==
    /\ LET c == transition_to(cb, "CLOSED")
       IN /\ cb' = c
          /\ cbHist' = Called("force_close", "None", c, cbHist.lastFailure)
    /\ UNCHANGED <<cbNow, mainVars, retryVars>>

\* Time passes between two calls.
ClockTick ==
    /\ cbNow < MaxTime
    /\ cbNow' = cbNow + 1
    /\ UNCHANGED <<cb, cbHist, mainVars, retryVars>>

NextBreaker ==
    \/ CanExecute
    \/ RecordSuccess
    \/ RecordBreakerFailure
    \/ ForceOpen
    \/ ForceClose
    \/ ClockTick

SpecBreaker == InitBreaker /\ [][NextBreaker]_vars

\* ------------------------------------------- mark_done: write extraction
\* SpecExtract follows the result loop of a tick whose single task A has
\* returned a final output; the node's writes and the output are drawn
\* from the sets below.  _auto_execute_code of this repository answers
\* "skipped"; "success" is what an executor that ran the code answers.
ExtractWrites == {<<"x">>, <<"x", "y">>}
ExtractFields == {"x", "y", "z"}
DictOver(F, v) == [k \in Keys |-> IF k \in F THEN v ELSE Missing]
ExecResults ==
    {NoExec, [status |-> "skipped", result |-> NoGlobals]}
    \cup {[status |-> "success", result |-> DictOver(F, "from result")] :
             F \in SUBSET ExtractFields}
ExtractOutputs ==
    {[exec |-> e, direct |-> DictOver(D, "5"), nestedIsDict |-> nd,
      nested |-> DictOver(IF nd THEN Nd ELSE {}, "from output.output"),
      final |-> f, writesTo |-> "user_response"] :
        e \in ExecResults, D \in SUBSET {"x", "y"}, nd \in BOOLEAN,
        Nd \in SUBSET {"x", "y"}, f \in {Missing, "from final_answer"}}

InitExtract ==
    /\ \E w \in ExtractWrites :
          /\ writes = [n \in AllIds |-> IF n = "A" THEN w ELSE <<>>]
          /\ lastPlan = [NoPlan EXCEPT !.nodes = <<ND("A", "CoderAgent", <<>>, w)>>,
                                       !.nextStep = "A"]
    /\ \E d \in ExtractOutputs :
          outData = [n \in AllIds |-> IF n = "A" THEN d ELSE NoOutput]
    /\ planResult = "ok"
    /\ nodeOrder = <<"ROOT", "Query", "A">>
    /\ mergedIds = {"A"}
    /\ reads = [n \in AllIds |-> <<>>]
    /\ RetryIdle
    /\ BreakerIdle
    /\ edges = {<<"ROOT", "Query">>, <<"Query", "A">>}
    /\ status = [n \in AllIds |-> IF n \in {"ROOT", "Query"} THEN "completed"
                                  ELSE IF n = "A" THEN "running"
                                  ELSE "absent"]
    /\ agent = [n \in AllIds |-> IF n = "ROOT" THEN "System"
                                 ELSE IF n = "Query" THEN "PlannerAgent"
                                 ELSE IF n = "A" THEN "CoderAgent"
                                 ELSE "none"]
    /\ cost = [n \in AllIds |-> 0]
    /\ retryCount = [n \in AllIds |-> 0]
    /\ graphStatus = "running"
    /\ stopRequested = FALSE
    /\ userInputEvent = FALSE
    /\ userInputValue = "None"
    /\ woken = {}
    /\ pc = "record"
    /\ readySteps = <<"A">>
    /\ stepState = [n \in AllIds |-> IF n = "A" THEN "ok" ELSE "idle"]
    /\ outCost = [n \in AllIds |-> 0]
    /\ recIdx = 1
    /\ costWarningShown = FALSE
    /\ planCalls = 1
    /\ stepStarts = [n \in AllIds |-> IF n = "A" THEN 1 ELSE 0]
    /\ stepFailedEvents = [n \in AllIds |-> 0]
    /\ costWarnings = 0
    /\ turn = [n \in AllIds |-> 1]
    /\ iterContext = [n \in AllIds |-> NoContext]
    /\ finalWarning = [n \in AllIds |-> FALSE]
    /\ toolErrors = [n \in AllIds |-> 0]
    /\ workerCalls = [n \in AllIds |-> IF n = "A" THEN 1 ELSE 0]
    /\ outKind = [n \in AllIds |-> IF n = "A" THEN "final" ELSE "none"]
    /\ globals = NoGlobals
    /\ inputs = [n \in AllIds |-> NoGlobals]
    /\ allGlobals = [n \in AllIds |-> NoGlobals]

NextExtract == RecordDone("A") \/ CostCheck \/ HeadDone

SpecExtract == InitExtract /\ [][NextExtract]_vars

\* ------------------------------------- _execute_step: the ReAct loop
\* SpecStep follows one pass of _execute_dag over a single task and every
\* turn of the ReAct loop of its executions.
MaxTurns == 15

\* How route_tool_call can fail: the tool is not in the index
\* (ToolNotFoundError), its service has no handler (ToolExecutionError), the
\* handler raises a ToolError of its own (passed on as it is), or the
\* handler raises anything else (wrapped in a ToolExecutionError).
ToolErrorKinds == {"NotRegistered", "NoHandler", "HandlerToolError", "HandlerFailed"}

\* f"Error: {e!s}" for the tool 'tool' of the service 'service'; a handler
\* that raises does so with the message 'error'.
ErrorText(e) ==
    CASE e = "NotRegistered" -> "Error: Tool 'tool' is not registered"
      [] e = "NoHandler" -> "Error: Service 'service' has no handler for tool 'tool'"
      [] e = "HandlerFailed" -> "Error: Tool 'tool' failed: error"
      [] OTHER -> "Error: error"

\* A loop that allows one turn more than max_turns.
ContinuePastLimit(t, ctx, warn) ==
    /\ allGlobals' = [allGlobals EXCEPT ![t] = AllGlobalsSchema(t)]
    /\ IF turn[t] < MaxTurns + 1
       THEN /\ turn' = [turn EXCEPT ![t] = turn[t] + 1]
            /\ iterContext' = [iterContext EXCEPT ![t] = ctx]
            /\ finalWarning' = [finalWarning EXCEPT ![t] = warn]
            /\ stepState' = [stepState EXCEPT ![t] = "worker"]
       ELSE /\ UNCHANGED <<turn, iterContext, finalWarning>>
            /\ stepState' = [stepState EXCEPT ![t] = "ok"]

\* `continue`: the next turn starts with the rebuilt current_input, or the
\* range is exhausted and the last output is returned as a success.
Continue(t, ctx, warn) ==
    /\ allGlobals' = [allGlobals EXCEPT ![t] = AllGlobalsSchema(t)]
    /\ IF turn[t] < MaxTurns
       THEN /\ turn' = [turn EXCEPT ![t] = turn[t] + 1]
            /\ iterContext' = [iterContext EXCEPT ![t] = ctx]
            /\ finalWarning' = [finalWarning EXCEPT ![t] = warn]
            /\ stepState' = [stepState EXCEPT ![t] = "worker"]
       ELSE /\ UNCHANGED <<turn, iterContext, finalWarning>>
            /\ stepState' = [stepState EXCEPT ![t] = "ok"]

\* What the model call inside run_agent can raise.
WorkerErrors == {"TimeoutError", "ConnectionError", "ValueError"}

\* The invocations retry_with_backoff makes of a run_agent whose model call
\* raises e: run_agent catches every Exception and returns a success False
\* result, so the wrapper sees a normal return.
AttemptsOnError(e) == 1

\* run_agent is invoked n times for the turn; the invocation that returns
\* gives an output of kind k and cost c.
Invoked(t, k, c, n) ==
    /\ workerCalls' = [workerCalls EXCEPT ![t] = workerCalls[t] + n]
    /\ outKind' = [outKind EXCEPT ![t] = k]
    /\ outCost' = [outCost EXCEPT ![t] = c]
    /\ outData' = [outData EXCEPT ![t] = IF k \in {"none"} \cup WorkerErrors
                                         THEN NoOutput ELSE PlainOutput]

\* run_agent is invoked once for the turn and returns an output of kind k
\* and cost c.
Invoke(t, k, c) == Invoked(t, k, c, 1)

\* The worker's output of cost c asks for a tool: tool_call is published
\* and route_tool_call is awaited.  Under the stop flag the turn returns
\* the failure 'Stop requested' before it looks at the output.
CallTool(t, c) ==
    /\ InFlight(t)
    /\ stepState' = [stepState EXCEPT ![t] = IF stopRequested THEN "fail" ELSE "tool"]
    /\ Invoke(t, "call_tool", c)
    /\ UNCHANGED <<globals, inputs, allGlobals, cbVars, retryVars, turn, iterContext, finalWarning, toolErrors, graphVars, status, cost, retryCount, graphStatus, stopRequested,
                   inputVars, pc, readySteps, recIdx, costWarningShown, planCalls,
                   eventVars>>

\* route_tool_call returns: the result goes into the next turn's context,
\* with the FINAL turn warning on the turn before the last.
ToolOk(t) ==
    /\ pc = "gather"
    /\ stepState[t] = "tool"
    /\ Continue(t, [key |-> "tool_result", value |-> "result"], turn[t] = MaxTurns - 1)
    /\ UNCHANGED <<globals, inputs, outData, cbVars, retryVars, toolErrors, workerCalls, outKind, graphVars, status, cost, retryCount, graphStatus,
                   stopRequested, inputVars, pc, readySteps, outCost, recIdx,
                   costWarningShown, planCalls, eventVars>>

\* A tool error handled as a failure of the step.
ToolErrorFailsStep(t, e) ==
    /\ pc = "gather"
    /\ stepState[t] = "tool"
    /\ toolErrors' = [toolErrors EXCEPT ![t] = toolErrors[t] + 1]
    /\ stepState' = [stepState EXCEPT ![t] = "fail"]
    /\ UNCHANGED <<dataVars, cbVars, retryVars, turn, iterContext, finalWarning, workerCalls, outKind, graphVars,
                   status, cost, retryCount,
                   graphStatus, stopRequested, inputVars, pc, readySteps, outCost, recIdx,
                   costWarningShown, planCalls, eventVars>>

\* route_tool_call raises e: the error is logged and its text goes into the
\* next turn's context as tool_result.
ToolError(t, e) ==
    /\ pc = "gather"
    /\ stepState[t] = "tool"
    /\ toolErrors' = [toolErrors EXCEPT ![t] = toolErrors[t] + 1]
    /\ Continue(t, [key |-> "tool_result", value |-> ErrorText(e)], FALSE)
    /\ UNCHANGED <<globals, inputs, outData, cbVars, retryVars, workerCalls, outKind, graphVars, status, cost, retryCount, graphStatus, stopRequested,
                   inputVars, pc, readySteps, outCost, recIdx, costWarningShown,
                   planCalls, eventVars>>

\* The worker's output of cost c asks for another turn (call_self).
CallSelf(t, c) ==
    /\ InFlight(t)
    /\ Invoke(t, "call_self", c)
    /\ IF stopRequested
       THEN /\ stepState' = [stepState EXCEPT ![t] = "fail"]
            /\ UNCHANGED <<allGlobals, turn, iterContext, finalWarning>>
       ELSE Continue(t, [key |-> "call_self", value |-> "none"], FALSE)
    /\ UNCHANGED <<globals, inputs, cbVars, retryVars, toolErrors, graphVars, status, cost, retryCount, graphStatus,
                   stopRequested, inputVars, pc, readySteps, recIdx, costWarningShown,
                   planCalls, eventVars>>

\* The worker's output of cost c is a final answer: the result is returned.
TurnFinal(t, c) ==
    /\ InFlight(t)
    /\ Invoke(t, "final", c)
    /\ stepState' = [stepState EXCEPT ![t] = IF stopRequested THEN "fail" ELSE "ok"]
    /\ UNCHANGED <<globals, inputs, allGlobals, cbVars, retryVars, turn, iterContext, finalWarning, toolErrors, graphVars, status, cost,
                   retryCount, graphStatus, stopRequested, inputVars, pc, readySteps,
                   recIdx, costWarningShown, planCalls, eventVars>>

\* The model call raises e inside run_agent, which returns success False:
\* the step returns that failure result, without output.
TurnFailure(t, e) ==
    /\ InFlight(t)
    /\ Invoked(t, e, 0, AttemptsOnError(e))
    /\ stepState' = [stepState EXCEPT ![t] = "fail"]
    /\ UNCHANGED <<globals, inputs, allGlobals, cbVars, retryVars, turn, iterContext, finalWarning, toolErrors, graphVars, status, cost,
                   retryCount, graphStatus, stopRequested, inputVars, pc, readySteps,
                   recIdx, costWarningShown, planCalls, eventVars>>

\* The output is not a dict: output.get raises out of _execute_step.
TurnException(t) ==
    /\ InFlight(t)
    /\ Invoke(t, "none", 0)
    /\ stepState' = [stepState EXCEPT ![t] = "exc"]
    /\ UNCHANGED <<globals, inputs, allGlobals, cbVars, retryVars, turn, iterContext, finalWarning, toolErrors, graphVars, status, cost,
                   retryCount, graphStatus, stopRequested, inputVars, pc, readySteps,
                   recIdx, costWarningShown, planCalls, eventVars>>

\* The output of cost c carries a clarificationMessage: mark_done is called
\* from inside the turn.
TurnClarification(t, c) ==
    /\ InFlight(t)
    /\ Invoke(t, "clarification", c)
    /\ IF is_clarification_request(t)
       THEN /\ status' = [status EXCEPT ![t] = IF stopRequested THEN "failed"
                                                ELSE "waiting_input"]
            /\ userInputEvent' = FALSE
            /\ userInputValue' = "None"
            /\ woken' = woken \ {t}
            /\ stepState' = [stepState EXCEPT ![t] = IF stopRequested THEN "okclar"
                                                      ELSE "waiting"]
            /\ cost' = cost
            /\ globals' = globals
       ELSE /\ status' = [status EXCEPT ![t] = "completed"]
            /\ cost' = [cost EXCEPT ![t] = c]
            /\ stepState' = [stepState EXCEPT ![t] = "okclar"]
            /\ globals' = Extract(globals, t, PlainOutput)
            /\ UNCHANGED inputVars
    /\ UNCHANGED <<inputs, allGlobals, cbVars, retryVars, turn, iterContext, finalWarning, toolErrors, graphVars, retryCount,
                   graphStatus, stopRequested, pc, readySteps, recIdx, costWarningShown,
                   planCalls, eventVars>>

\* Agents the single task of SpecStep may have.
StepAgents == {"CoderAgent", "ClarificationAgent"}

\* _execute_dag is entered with one pending task A behind a completed Query.
InitStep ==
    /\ nodeOrder = <<"ROOT", "Query", "A">>
    /\ mergedIds = {"A"}
    /\ reads = [n \in AllIds |-> <<>>]
    /\ writes = [n \in AllIds |-> <<>>]
    /\ RetryIdle
    /\ BreakerIdle
    /\ edges = {<<"ROOT", "Query">>, <<"Query", "A">>}
    /\ status = [n \in AllIds |-> IF n \in {"ROOT", "Query"} THEN "completed"
                                  ELSE IF n = "A" THEN "pending"
                                  ELSE "absent"]
    /\ \E a \in StepAgents :
          agent = [n \in AllIds |-> IF n = "ROOT" THEN "System"
                                    ELSE IF n = "Query" THEN "PlannerAgent"
                                    ELSE IF n = "A" THEN a
                                    ELSE "none"]
    /\ lastPlan = [NoPlan EXCEPT !.nodes = <<N("A", agent["A"])>>, !.nextStep = "A"]
    /\ planResult = "ok"
    /\ cost = [n \in AllIds |-> 0]
    /\ retryCount = [n \in AllIds |-> 0]
    /\ graphStatus = "running"
    /\ stopRequested = FALSE
    /\ userInputEvent = FALSE
    /\ userInputValue = "None"
    /\ woken = {}
    /\ pc = "head"
    /\ readySteps = <<>>
    /\ stepState = [n \in AllIds |-> "idle"]
    /\ outCost = [n \in AllIds |-> 0]
    /\ recIdx = 0
    /\ costWarningShown = FALSE
    /\ planCalls = 1
    /\ stepStarts = [n \in AllIds |-> 0]
    /\ stepFailedEvents = [n \in AllIds |-> 0]
    /\ costWarnings = 0
    /\ turn = [n \in AllIds |-> 1]
    /\ iterContext = [n \in AllIds |-> NoContext]
    /\ finalWarning = [n \in AllIds |-> FALSE]
    /\ toolErrors = [n \in AllIds |-> 0]
    /\ workerCalls = [n \in AllIds |-> 0]
    /\ outKind = [n \in AllIds |-> "none"]
    /\ globals = NoGlobals
    /\ inputs = [n \in AllIds |-> NoGlobals]
    /\ allGlobals = [n \in AllIds |-> NoGlobals]
    /\ outData = [n \in AllIds |-> NoOutput]

NextStep ==
    \/ HeadDispatch
    \/ StartSteps
    \/ HeadDone
    \/ HeadStop
    \/ \E t \in TaskIds :
          \/ \E c \in Costs : CallTool(t, c)
          \/ ToolOk(t)
          \/ \E e \in ToolErrorKinds : ToolError(t, e)
          \/ \E c \in Costs : CallSelf(t, c)
          \/ \E c \in Costs : TurnFinal(t, c)
          \/ \E e \in WorkerErrors : TurnFailure(t, e)
          \/ TurnException(t)
          \/ \E c \in Costs : TurnClarification(t, c)
          \/ StepResume(t)
          \/ RecordFailure(t)
          \/ RecordDone(t)
          \/ RecordClarification(t)
    \/ GatherReturn
    \/ RecordResume
    \/ CostCheck
    \/ ProvideInput
    \/ ContextStop
    \/ Stop
    \/ \E t \in TaskIds : CancelStepSwallowed(t)
    \/ CancelDag
    \/ CancelRecordSwallowed
    \/ CancelRecordCancelled

SpecStep == InitStep /\ [][NextStep]_vars

\* ================================================================ claims
\* The step in which _execute_dag marks task t running and dispatches it.
Dispatched(t) == pc = "head" /\ pc' = "gather" /\ t \in Range(readySteps')

RECURSIVE ReachFrom(_, _)
ReachFrom(frontier, seen) ==
    LET nxt == UNION {Successors(n) : n \in frontier} \ seen
    IN IF nxt = {} THEN seen ELSE ReachFrom(nxt, seen \cup nxt)
TransitiveSuccessors(t) == ReachFrom({t}, {})

\* C1: whenever the scheduler moves a task to running, every predecessor of
\* that task is completed, before and after the step.
C1_StartsAfterPredecessors ==
    [][\A t \in AllIds :
          Dispatched(t) =>
              /\ status'[t] = "running"
              /\ \A p \in Predecessors(t) :
                    status[p] = "completed" /\ status'[p] = "completed"]_vars

\* A task with a planned predecessor is running.
C1_Witness ==
    /\ pc = "gather"
    /\ \E t \in Range(readySteps) :
          /\ status[t] = "running"
          /\ \E p \in Predecessors(t) : p \in TaskIds /\ status[p] = "completed"

\* C2: mark_running is applied only to a task whose status is pending and
\* that has no execution in flight.
C2_OnlyPendingDispatched ==
    [][\A t \in AllIds :
          Dispatched(t) => status[t] = "pending" /\ stepState[t] = "idle"]_vars

\* A tick is in flight while a completed task with completed predecessors is
\* in the graph, and a task of the tick is in its second execution.
C2_Witness ==
    /\ pc = "gather"
    /\ \E t \in TaskIds : status[t] = "completed"
    /\ \E u \in Range(readySteps) : status[u] = "running" /\ stepStarts[u] = 2

\* C3 (as claimed, the half that a finite run refutes): once a task has
\* failed for good (its step_failed event is published), no transitive
\* successor of it is moved to running in a run that is neither cancelled
\* nor aborted for budget.
C3_SuccessorsNeverRun ==
    [][\A t \in AllIds : \A s \in TransitiveSuccessors(t) \ {t} :
          (stepFailedEvents[t] > 0 /\ ~stopRequested /\ graphStatus # "cost_exceeded")
              => ~Dispatched(s)]_vars

\* C4 (as claimed): when stop is requested while a tick is in flight, run()
\* returns with every running or pending task stopped and the graph stopped.
C4_CancelStopsTasks ==
    [][(pc = "cancel_gather" /\ pc' = "returned") =>
          /\ \A n \in Nodes : status[n] \in {"running", "pending"} => status'[n] = "stopped"
          /\ graphStatus' = "stopped"]_vars

\* The step that ends a tick (the cost check after the result loop).
TickEnd == pc = "record" /\ recIdx > Len(readySteps) /\ pc' # "record"

\* C5: the graph status becomes cost_exceeded exactly in the step that ends
\* a tick with the cost of the completed tasks at or above max_cost_per_run.
C5_CostExceededExactlyAtThreshold ==
    [][(graphStatus # "cost_exceeded" /\ graphStatus' = "cost_exceeded")
          <=> (TickEnd /\ graphStatus # "cost_exceeded"
                 /\ AccumulatedCost >= MaxCostPerRun)]_vars

\* The budget was crossed by two completed tasks while a third is pending.
C5_Witness ==
    /\ graphStatus = "cost_exceeded"
    /\ pc = "dagdone"
    /\ AccumulatedCost >= MaxCostPerRun
    /\ \E t \in TaskIds : status[t] = "pending"

\* C6 (as claimed): once the graph status is cost_exceeded no further tick
\* is launched.
C6_NoTickAfterCostExceeded ==
    [][graphStatus = "cost_exceeded" => ~(pc = "head" /\ pc' = "gather")]_vars

\* C7 (as claimed): a pass of the loop that finds nothing ready, nothing in
\* flight and nothing to skip ends the loop with graph status failed.
C7_StuckTickEndsLoop ==
    [][(/\ pc = "head" /\ pc' # "head"
        /\ ~all_done /\ ~stopRequested
        /\ ReadySteps = <<>> /\ ~RunningOrWaiting
        /\ SkipPass(status, 1) = status)
          => (pc' = "dagdone" /\ graphStatus' = "failed")]_vars

\* C8 (as claimed): a terminal status never changes.
C8_TerminalIsFinal ==
    [][\A n \in AllIds : status[n] \in Terminal => status'[n] = status[n]]_vars

\* C9 (as claimed): a task is executed at most MAX_STEP_RETRIES + 1 times in
\* a run and its retry counter never exceeds MAX_STEP_RETRIES.
C9_AtMostThreeExecutions ==
    \A t \in AllIds :
        stepStarts[t] <= MAX_STEP_RETRIES + 1 /\ retryCount[t] <= MAX_STEP_RETRIES

\* The step in which route_tool_call raises into the ReAct loop of task t.
ToolFailed(t) ==
    pc = "gather" /\ stepState[t] = "tool" /\ toolErrors'[t] = toolErrors[t] + 1

\* The texts f"Error: {e!s}" of the errors route_tool_call raises for the
\* tool 'tool' of the service 'service' (core/service_registry.py).
ToolErrorTexts ==
    {"Error: Tool 'tool' is not registered",
     "Error: Service 'service' has no handler for tool 'tool'",
     "Error: Tool 'tool' failed: error",
     "Error: error"}

\* What a tool error must leave behind: the task stays running in the same
\* execution, its retry counter is untouched, no event of a failure or of
\* a new execution is published, and before the turn limit the next worker
\* turn gets the error text as tool_result context.
ToolErrorHandled(t) ==
    /\ status'[t] = "running"
    /\ stepState'[t] \notin {"fail", "exc"}
    /\ retryCount' = retryCount
    /\ stepStarts' = stepStarts
    /\ stepFailedEvents' = stepFailedEvents
    /\ turn[t] < MaxTurns =>
          /\ stepState'[t] = "worker"
          /\ turn'[t] = turn[t] + 1
          /\ iterContext'[t].key = "tool_result"
          /\ iterContext'[t].value \in ToolErrorTexts

\* The step in which a worker turn of task t, after a tool error of the
\* same execution, comes back with a final answer.
FinalAnswerAfterToolError(t) ==
    /\ InFlight(t)
    /\ toolErrors[t] > 0
    /\ workerCalls'[t] = workerCalls[t] + 1
    /\ outKind'[t] = "final"

\* C10 (as claimed): a tool error inside the ReAct loop does not fail the
\* task and does not touch its retry counter, the next worker turn gets the
\* error text as tool_result context, and when a later turn within the turn
\* limit gives a final answer the execution succeeds and the task is
\* recorded completed.
C10_LaterAnswerAlwaysCompletes ==
    [][\A t \in TaskIds :
          /\ ToolFailed(t) => ToolErrorHandled(t)
          /\ FinalAnswerAfterToolError(t) => stepState'[t] = "ok"
          /\ (Recording(t) /\ stepState[t] = "ok" /\ toolErrors[t] > 0) =>
                /\ status'[t] = "completed"
                /\ retryCount' = retryCount]_vars

\* C10 (amended): a tool error inside the ReAct loop does not fail the task
\* and does not touch its retry counter, the next worker turn gets the
\* error text as tool_result context, and when a later turn within the turn
\* limit gives a final answer while the stop flag is down the execution
\* succeeds and the task is recorded completed.
C10_ToolErrorIsNotTaskFailure ==
    [][\A t \in TaskIds :
          /\ ToolFailed(t) => ToolErrorHandled(t)
          /\ (FinalAnswerAfterToolError(t) /\ ~stopRequested) => stepState'[t] = "ok"
          /\ (Recording(t) /\ stepState[t] = "ok" /\ toolErrors[t] > 0) =>
                /\ status'[t] = "completed"
                /\ retryCount' = retryCount]_vars

\* A task whose execution met a tool error on an earlier turn, gave its
\* final answer before the turn limit and is completed without a retry.
C10_Witness ==
    \E t \in TaskIds :
        /\ status[t] = "completed"
        /\ toolErrors[t] > 0
        /\ turn[t] > 1 /\ turn[t] < MaxTurns
        /\ retryCount[t] = 0
        /\ stepStarts[t] = 1

\* The step in which the last turn of task t ends: its output asked for a
\* tool or for another turn.
LastTurnEnds(t) ==
    /\ pc = "gather" /\ pc' = "gather"
    /\ turn[t] = MaxTurns
    /\ stepState[t] \in {"worker", "tool"}
    /\ stepState'[t] \notin {"worker", "tool"}
    /\ outKind'[t] \in {"call_tool", "call_self"}

\* The same step when the ReAct loop runs out of turns: the stop flag is
\* down when the output of the last turn is examined.
Exhausted(t) ==
    /\ LastTurnEnds(t)
    /\ ~(stopRequested /\ stepState[t] = "worker")

\* C11 (as claimed): one execution of a task invokes the worker at most
\* MaxTurns times; when all MaxTurns turns ask for a tool or for another
\* turn, the execution returns success with the output of the last turn
\* unchanged.
C11_TurnLimitAsClaimed ==
    [][\A t \in TaskIds :
          /\ workerCalls'[t] <= MaxTurns
          /\ LastTurnEnds(t) =>
                /\ stepState'[t] = "ok"
                /\ workerCalls'[t] = MaxTurns]_vars

\* C11 (amended): one execution of a task invokes the worker at most
\* MaxTurns times; when all MaxTurns turns ask for a tool or for another
\* turn, and the stop flag is down when the output of the last turn is
\* examined, the execution returns success with the output of that turn as
\* it was, and that output is what is recorded for the task.
C11_TurnLimit ==
    [][\A t \in TaskIds :
          /\ workerCalls'[t] <= MaxTurns
          /\ workerCalls'[t] <= turn'[t]
          /\ Exhausted(t) =>
                /\ stepState'[t] = "ok"
                /\ workerCalls'[t] = MaxTurns
                /\ stepState[t] = "tool" =>
                      (outKind'[t] = outKind[t] /\ outCost'[t] = outCost[t])
          /\ (Recording(t) /\ stepState[t] = "ok" /\ workerCalls[t] = MaxTurns) =>
                (status'[t] = "completed" /\ cost'[t] = outCost[t])]_vars

\* A task completed by an execution whose fifteen turns all asked for a
\* tool or another turn, the last one with an output of cost 30.
C11_Witness ==
    \E t \in TaskIds :
        /\ status[t] = "completed"
        /\ workerCalls[t] = MaxTurns
        /\ outKind[t] = "call_tool"
        /\ cost[t] = 30

\* C12 (as claimed): a task waiting for a human answer blocks only itself:
\* another task of the graph whose worker has given its final answer is
\* recorded completed whether or not the answer ever arrives (unless the
\* run is stopped).
C12_WaitingBlocksOnlyItself ==
    \A a \in TaskIds :
        (stepState[a] = "ok" /\ status[a] = "running")
            ~> (status[a] = "completed" \/ stopRequested)

\* C13 (as claimed): when the run is stopped while a task is in
\* waiting_input, the task ends failed: once the stop is requested the
\* task does not become completed, and it is failed, not still in
\* waiting_input, when run() returns.
C13_StoppedWhileWaitingFails ==
    [][\A t \in AllIds :
          (status[t] = "waiting_input" /\ stopRequested /\ pc # "returned") =>
              /\ status'[t] \in {"waiting_input", "failed"}
              /\ pc' = "returned" => status'[t] = "failed"]_vars

\* The step in which the planner call ends with a failure: a success False
\* result, an output without plan_graph, or an exception.
PlannerFailed ==
    /\ pc = "planning"
    /\ pc' \notin {"planning", "cancel_planning"}
    /\ planResult' \in PlannerFailures

\* What a failed planner call must leave behind: run() is left, Query and
\* the graph are failed, every completed task keeps its status and what
\* was recorded for it, and no task is dispatched.
RunAborted ==
    /\ pc' = "returned"
    /\ status'["Query"] = "failed"
    /\ graphStatus' = "failed"
    /\ \A n \in AllIds : status[n] = "completed" => status'[n] = "completed"
    /\ cost' = cost
    /\ stepStarts' = stepStarts

\* C14 (as claimed): a failed planner call ends the run at once: Query and
\* the graph become failed, every completed task keeps its status and what
\* was recorded for it, and no task is dispatched then or afterwards.
C14_PlannerFailureAlwaysAborts ==
    [][/\ PlannerFailed => RunAborted
       /\ status["Query"] = "failed" =>
             (pc = "returned" /\ status' = status /\ stepStarts' = stepStarts)]_vars

\* C14 (amended): a planner call that fails while the stop flag is down
\* ends the run at once: Query and the graph become failed, every
\* completed task keeps its status and what was recorded for it, and no
\* task is dispatched then or afterwards.
C14_PlannerFailureAborts ==
    [][/\ (PlannerFailed /\ ~stopRequested) => RunAborted
       /\ status["Query"] = "failed" =>
             (pc = "returned" /\ status' = status /\ stepStarts' = stepStarts)]_vars

\* The planner fails on a re-planning call, after a task was completed.
C14_Witness ==
    /\ pc = "returned"
    /\ status["Query"] = "failed"
    /\ graphStatus = "failed"
    /\ \E t \in TaskIds : status[t] = "completed" /\ cost[t] = 30

\* The step in which run() merges a plan into the graph.
MergeStep == pc = "planning" /\ pc' = "dagstart"

\* C15: merging a plan that lists a node which is in the graph with status
\* completed leaves the status of that node and what was recorded for it
\* (cost, agent, retry counter) unchanged.
C15_MergeKeepsCompleted ==
    [][MergeStep =>
          \A n \in mergedIds' \cap Nodes :
              status[n] = "completed" =>
                  /\ status'[n] = "completed"
                  /\ cost'[n] = cost[n]
                  /\ agent'[n] = agent[n]
                  /\ retryCount'[n] = retryCount[n]]_vars

\* A second plan was merged that lists a task completed with cost 30.
C15_Witness ==
    /\ pc = "dagstart"
    /\ planCalls = 2
    /\ \E t \in mergedIds : status[t] = "completed" /\ cost[t] = 30

\* Edges into n that the merge added from the bootstrap task.
GainedFromBootstrap(n) == {e \in edges' \ edges : e[1] = "Query" /\ e[2] = n}
\* Edges into n after the merge that do not come from the bootstrap task.
IncomingFromTasks(n) == {e \in edges' : e[2] = n /\ e[1] # "Query"}

\* C16 (as claimed): after a merge every merged node without an incoming
\* edge from another task has the edge from the bootstrap task, and a
\* merged node that has an incoming edge from another task in the graph
\* has gained no edge from the bootstrap task in that merge.
C16_OrphansWiredToBootstrap ==
    [][MergeStep =>
          \A n \in mergedIds' :
              /\ IncomingFromTasks(n) = {} => <<"Query", n>> \in edges'
              /\ IncomingFromTasks(n) # {} => GainedFromBootstrap(n) = {}]_vars

\* Number of occurrences of k in the list r.
Count(r, k) == Cardinality({i \in DOMAIN r : r[i] = k})

\* C17 (as claimed): after a merge each write key of a merged clarification
\* node is present exactly once in the reads of each of its direct
\* successors in the plan, and merging the same plan again leaves every
\* reads list as it was.
C17_SafetyNetIdempotent ==
    [][MergeStep =>
          /\ \A c \in mergedIds' :
                PlanNode(lastPlan', c).agent = "ClarificationAgent" =>
                    \A e \in Range(lastPlan'.edges) :
                        (e[1] = c /\ e[2] \in mergedIds') =>
                            \A k \in Range(PlanNode(lastPlan', c).writes) :
                                Count(reads'[e[2]], k) = 1
          /\ lastPlan' = lastPlan => reads' = reads]_vars

\* The step in which run() goes on after _execute_dag returned and no stop
\* was requested.
DagReturned == pc = "dagdone" /\ pc' # "dagdone" /\ ~stopRequested /\ ~stopRequested'

\* Some completed clarification task has no successor.
UnusedClarification ==
    \E c \in Nodes : /\ agent[c] = "ClarificationAgent"
                      /\ status[c] = "completed"
                      /\ {e \in edges : e[1] = c} = {}

\* C18: after _execute_dag returns without a stop the planner is called
\* again if and only if every task is terminal and some completed
\* clarification task has no successor; otherwise run() returns.
C18_ReplanIff ==
    [][DagReturned =>
          /\ pc' \in {"planning", "returned"}
          /\ pc' = "planning" <=>
                ((\A n \in Nodes : status[n] \in Terminal) /\ UnusedClarification)]_vars

\* run() has gone back to the planner after a sub-graph resolved with a
\* completed clarification task that has no successor.
C18_Witness ==
    /\ pc = "planning"
    /\ planCalls = 1
    /\ status["Query"] = "running"
    /\ UnusedClarification
    /\ \E t \in TaskIds : status[t] = "skipped"

\* The outcomes of the calls made before call n were all retryable.
RetriedUpTo(n) == \A i \in 1..(n - 1) : rbScript[i] \in Retryable

\* C19: retry_with_backoff calls the operation at most max_retries times;
\* a retryable failure on any attempt but the last is followed by a sleep
\* of base_delay * 2^attempt and one more attempt, a failure that is not
\* retryable is raised at once, and when every attempt fails retryably
\* the failure of the last attempt is raised.
C19_RetryWithBackoff ==
    /\ rbCalls <= rbMax
    /\ RetriedUpTo(rbCalls)
    /\ rbState = "sleep" =>
          /\ rbScript[rbCalls] \in Retryable
          /\ rbCalls = rbAttempt + 1 /\ rbCalls < rbMax
          /\ rbDelays = [i \in 1..rbCalls |-> rbBase * 2^(i - 1)]
    /\ rbState = "call" => (rbCalls = rbAttempt /\ Len(rbDelays) = rbCalls)
    /\ rbState = "returned" => rbScript[rbCalls] = "ok"
    /\ (rbState = "raised" /\ rbMax > 0) =>
          /\ rbRaised = [kind |-> rbScript[rbCalls], attempt |-> rbCalls - 1]
          /\ rbRaised.kind # "ok"
          /\ rbRaised.kind \in Retryable => rbCalls = rbMax
          /\ rbDelays = [i \in 1..(rbCalls - 1) |-> rbBase * 2^(i - 1)]

\* With the default of three attempts every call fails retryably: two
\* sleeps of base and twice base, and the third failure is raised.
C19_Witness ==
    /\ rbMax = DefaultMaxRetries
    /\ rbState = "raised"
    /\ rbCalls = 3
    /\ rbBase = 2
    /\ rbDelays = <<2, 4>>
    /\ rbRaised = [kind |-> "ConnectionError", attempt |-> 2]
    /\ rbScript[1] = "TimeoutError"

\* The value the completion of p wrote under key k, Missing when it wrote
\* none: the extraction for its write keys, the answer for its writes_to.
Written(p, k) ==
    IF k \in Range(writes[p]) THEN Extract(NoGlobals, p, outData[p])[k]
    ELSE IF agent[p] = "ClarificationAgent" /\ k = outData[p].writesTo
    THEN RichContext("answer")
    ELSE Missing

\* Tasks whose _execute_step is in the gather of the tick in progress.
InTick == IF pc = "gather" THEN Range(readySteps) ELSE {}

\* u has been through mark_done inside its _execute_step in this tick.
WroteInTick(u) == u \in InTick /\ stepState[u] = "okclar" /\ status[u] = "completed"

\* C20 (as claimed): the inputs of a task in execution hold, for each of
\* its reads, exactly the value a completed predecessor wrote under that
\* key, and nothing a task of the same tick has written is in its inputs
\* or in the globals handed to it.
C20_InputsFromCompletedPredecessors ==
    \A t \in InTick :
        /\ \A k \in Range(reads[t]) :
              /\ inputs[t][k] # Missing =>
                    \E p \in Predecessors(t) :
                        status[p] = "completed" /\ inputs[t][k] = Written(p, k)
              /\ \A p \in Predecessors(t) :
                    (status[p] = "completed" /\ Written(p, k) # Missing) =>
                        inputs[t][k] # Missing
        /\ \A u \in InTick \ {t} : \A k \in Keys :
              (WroteInTick(u) /\ Written(u, k) # Missing) =>
                  /\ inputs[t][k] # Written(u, k)
                  /\ allGlobals[t][k] # Written(u, k)

\* The step records task t completed (mark_done reaches "Store results").
RecordedCompleted(t) == status[t] # "completed" /\ status'[t] = "completed"

\* C21 (as claimed): every key of the global dictionary that changes when a
\* task is recorded completed is one of that task's declared writes, and
\* every global-dictionary value handed to the worker of a task in
\* execution, in its inputs or in all_globals_schema, sits under one of
\* that task's declared reads.
C21_OnlyDeclaredKeys ==
    [][/\ \A k \in Keys :
             globals'[k] # globals[k] =>
                 \E t \in AllIds : RecordedCompleted(t) /\ k \in Range(writes[t])
       /\ \A t \in InTick : \A k \in Keys :
             (inputs[t][k] # Missing \/ allGlobals[t][k] # Missing) =>
                 k \in Range(reads[t])]_vars

\* The sources of a value for write key k in the output d.
InResult(d, k) == d.exec.status = "success" /\ d.exec.result[k] # Missing
OnlyField(d, ws) == d.exec.status = "success" /\ Size(d.exec.result) = 1 /\ Len(ws) = 1
InOutput(d, k) == d.direct[k] # Missing
InNested(d, k) == d.nestedIsDict /\ d.nested[k] # Missing
HasFinalAnswer(d) == d.final # Missing

\* C22: when a task is recorded completed each of its write keys gets the
\* value of the first source that applies: the key in a successful code
\* execution result (or the only field of that result when the task has
\* one write key), the key in the output, the key under the output's
\* "output" dict, final_answer, and otherwise the empty value; no other
\* key of the global dictionary changes.
C22_ExtractionPriority ==
    [][\A t \in TaskIds : (RecordedCompleted(t) /\ agent[t] # "ClarificationAgent") =>
          LET d == outData'[t]
          IN \A k \in Keys :
              IF k \notin Range(writes[t]) THEN globals'[k] = globals[k]
              ELSE IF InResult(d, k) THEN globals'[k] = d.exec.result[k]
              ELSE IF OnlyField(d, writes[t]) THEN globals'[k] = "from result"
              ELSE IF InOutput(d, k) THEN globals'[k] = d.direct[k]
              ELSE IF InNested(d, k) THEN globals'[k] = d.nested[k]
              ELSE IF HasFinalAnswer(d) THEN globals'[k] = d.final
              ELSE globals'[k] = "[]"]_vars

\* The output carries y, x under its "output" dict and a final_answer, and
\* its code execution was skipped: x comes from the "output" dict and y
\* from the output itself.
C22_Witness ==
    /\ status["A"] = "completed"
    /\ writes["A"] = <<"x", "y">>
    /\ outData["A"].exec.status = "skipped"
    /\ ~InOutput(outData["A"], "x") /\ InNested(outData["A"], "x")
    /\ HasFinalAnswer(outData["A"])
    /\ InOutput(outData["A"], "y")
    /\ globals["x"] = "from output.output"
    /\ globals["y"] = "5"

\* The three conditions of the auto-clarification for planner output p.
NeedsClarification(p) ==
    /\ p.confidence < 70
    /\ p.ambiguityNotes > 0
    /\ \A i \in 1..Len(p.nodes) : p.nodes[i].agent # "ClarificationAgent"

\* C23 (as claimed): when a planner output with confidence below 0.7, at
\* least one ambiguity note and no clarification node is merged, the graph
\* holds the synthesized clarification task with an edge to the declared
\* next step, whose reads hold the clarification's write key, and no step
\* behind the synthesized task starts before it is completed; a planner
\* output that misses one of the three conditions brings no synthesized
\* task into the merge.
C23_AutoClarification ==
    [][/\ MergeStep =>
             \A p \in ClarifyPlans : (lastPlan' = AutoClarify(p)) =>
                 IF NeedsClarification(p)
                 THEN /\ status'[AutoClarifyId] # "absent"
                      /\ agent'[AutoClarifyId] = "ClarificationAgent"
                      /\ <<AutoClarifyId, p.nextStep>> \in edges'
                      /\ \E k \in Range(writes'[AutoClarifyId]) :
                            k \in Range(reads'[p.nextStep])
                 ELSE AutoClarifyId \notin mergedIds'
       /\ \A t \in TaskIds :
             (<<AutoClarifyId, t>> \in edges /\ status[t] # "running" /\ status'[t] = "running")
                 => status[AutoClarifyId] = "completed"]_vars

\* The step is a call of the named method of the breaker.
BreakerCall(op) == cbHist'.op = op /\ cbNow' = cbNow /\ (cb' # cb \/ cbHist' # cbHist)
Moves(from, to) == cb.state = from /\ cb'.state = to

\* C24: apart from force_open and force_close the breaker changes state
\* only from CLOSED to OPEN on the record_failure that brings failure_count
\* to failure_threshold (CLOSED never holds that many), from OPEN to
\* HALF_OPEN on a can_execute made recovery_timeout or more after the last
\* failure, from HALF_OPEN to OPEN on a record_failure, and from HALF_OPEN
\* to CLOSED on the half_open_max_calls-th record_success, which leaves
\* failure_count at 0; and each of these calls does make its transition.
C24_BreakerTransitions ==
    [][/\ cb'.state # cb.state =>
             \/ BreakerCall("force_open") \/ BreakerCall("force_close")
             \/ /\ Moves("CLOSED", "OPEN") /\ BreakerCall("record_failure")
                /\ cb.failure_count < cb.failure_threshold
                /\ cb'.failure_count = cb.failure_threshold
             \/ /\ Moves("OPEN", "HALF_OPEN") /\ BreakerCall("can_execute")
                /\ cbNow - cbHist.lastFailure >= cb.recovery_timeout
             \/ Moves("HALF_OPEN", "OPEN") /\ BreakerCall("record_failure")
             \/ /\ Moves("HALF_OPEN", "CLOSED") /\ BreakerCall("record_success")
                /\ cb.success_count + 1 = cb.half_open_max_calls
                /\ cb'.failure_count = 0
       /\ (cb.state = "CLOSED" /\ BreakerCall("record_failure")
              /\ cb.failure_count + 1 = cb.failure_threshold) => cb'.state = "OPEN"
       /\ (cb.state = "HALF_OPEN" /\ BreakerCall("record_failure")) => cb'.state = "OPEN"
       /\ (cb.state = "HALF_OPEN" /\ BreakerCall("record_success")
              /\ cb.success_count + 1 = cb.half_open_max_calls) => cb'.state = "CLOSED"
       /\ cb.state = "CLOSED" => cb.failure_count < cb.failure_threshold]_vars

\* A breaker with threshold 2 has gone CLOSED, OPEN, HALF_OPEN, and is
\* CLOSED again after its second success with failure_count 0.
C24_Witness ==
    /\ cb.failure_threshold = 2 /\ cb.half_open_max_calls = 2 /\ cb.recovery_timeout = 2
    /\ cb.state = "CLOSED"
    /\ cbHist.op = "record_success"
    /\ cbHist.lastFailure > 0
    /\ cb.failure_count = 0
    /\ cb.last_failure_time = cbHist.lastFailure

\* C25: can_execute answers True in CLOSED; in OPEN it answers False and
\* leaves the breaker OPEN while less than recovery_timeout has passed
\* since the last failure; in HALF_OPEN the call that entered it and at
\* most half_open_max_calls further calls are answered True, and every
\* later call is answered False while the breaker stays HALF_OPEN.
C25_CanExecute ==
    [][/\ BreakerCall("can_execute") =>
             /\ cb.state = "CLOSED" => cbHist'.result = "True" /\ cb'.state = "CLOSED"
             /\ (cb.state = "OPEN" /\ cbNow - cbHist.lastFailure < cb.recovery_timeout) =>
                   cbHist'.result = "False" /\ cb'.state = "OPEN"
             /\ cb.state = "HALF_OPEN" =>
                   /\ cb'.state = "HALF_OPEN"
                   /\ cbHist'.result = "True" <=> cbHist.admitted < cb.half_open_max_calls + 1
       /\ cb.state = "HALF_OPEN" =>
             cbHist.admitted >= 1 /\ cbHist.admitted <= cb.half_open_max_calls + 1]_vars

\* In HALF_OPEN with half_open_max_calls 2 three calls were admitted and
\* the fourth is answered False.
C25_Witness ==
    /\ cb.state = "HALF_OPEN"
    /\ cb.half_open_max_calls = 2
    /\ cbHist.admitted = 3
    /\ cbHist.op = "can_execute"
    /\ cbHist.result = "False"

\* The step ends a tick of _execute_dag.
TickEnds == pc = "record" /\ recIdx > Len(readySteps) /\ pc' # "record"

\* C26: during one run the cost warning is logged at most once, at the end
\* of the first tick that leaves the accumulated cost of the completed
\* tasks at warn_at_cost or more, whatever the number of plan/execute
\* passes of the run.
C26_CostWarningOnce ==
    [][/\ costWarnings' <= 1
       /\ costWarnings' > costWarnings => TickEnds /\ AccumulatedCost >= WarnAtCost
       /\ (TickEnds /\ AccumulatedCost >= WarnAtCost /\ costWarnings = 0) =>
             costWarnings' = 1]_vars

\* The step in which the execution of task t returns a failure to the
\* scheduler after its worker invocation failed with error e.
WorkerFailed(t, e) ==
    /\ stepState[t] = "worker"
    /\ stepState'[t] = "fail"
    /\ outKind'[t] = e

\* C27: a worker invocation that fails with a timeout or a connection
\* failure is retried by retry_with_backoff inside the same execution of
\* the task: the failure reaches the scheduler only after the
\* DefaultMaxRetries invocations the wrapper makes for that turn; any other
\* error reaches it after one invocation.
C27_TransientFailureRetried ==
    [][\A t \in TaskIds, e \in WorkerErrors :
          WorkerFailed(t, e) =>
             workerCalls'[t] - workerCalls[t] =
                IF e \in Retryable THEN DefaultMaxRetries ELSE 1]_vars

\* C28: a clarification task whose worker returned a clarificationMessage
\* waits for a human answer once per execution: the answer takes it from
\* waiting_input to completed, and a task recorded completed does not
\* enter waiting_input again.
C28_WaitsOnce ==
    [][\A t \in AllIds :
          /\ (status[t] = "waiting_input" /\ status'[t] # "waiting_input"
                 /\ ~stopRequested') => status'[t] = "completed"
          /\ status[t] = "completed" => status'[t] # "waiting_input"]_vars

\* The step in which task t leaves waiting_input with an answer.
Resumes(t) == status[t] = "waiting_input" /\ status'[t] = "completed"

\* C29: an answer given through provide_user_input is delivered to at most
\* one waiting task and is not lost: when task t resumes from the answer
\* while task u is waiting too, the answer is not left for u to resume
\* from, and the value t records is the answer supplied, not an empty one.
C29_AnswerToOneTask ==
    [][\A t \in AllIds :
          Resumes(t) =>
             /\ userInputValue = "answer"
             /\ \A u \in AllIds \ {t} :
                   status[u] = "waiting_input" => u \notin woken']_vars

\* C30: when every planner, worker and tool call returns and every
\* clarification is answered, run() returns in the end; the loop of
\* planning, execution and replanning does not go on forever, also when a
\* completed clarification task has no successor after a replanning pass.
C30_RunReturns == <>(pc = "returned")

====
